---------------------------- MODULE Spec2Model ----------------------------
(***************************************************************************)
(* A model of the logpack codec (src/pack/pack.go): the chunk compressor   *)
(* Compress, the decompressor Decompress / decompressChunk, and the two    *)
(* callers that drive them (PackBuffer / UnpackBuffer of pack_test.go and  *)
(* TestCompressEmpty of cornerCases_test.go).                              *)
(*                                                                         *)
(* Byte slices are sequences of integers 0..255.  The source indexes from  *)
(* 0; At and Slice keep the source's 0-based indexes.  A write or read     *)
(* outside a slice is a Go run-time panic: it is recorded in the variable  *)
(* fault and ends the run.                                                 *)
(***************************************************************************)
EXTENDS Integers, Sequences, FiniteSets, TLC

(***************************************************************************)
(* Program constants (src/pack/pack.go:11-43).                             *)
(***************************************************************************)
NOT_ENOUGH_INPUT == -1
NOT_ENOUGH_OUTPUT_SPACE == -2
CORRUPT_INPUT == -3

ESCAPE_BYTE == 128
NO_SHARED_PREFIX_FLAG == 64
LENGTH_BASE == 127
MAX_BACKREFERENCE_CAPACITY == 64
SIZEOF_INT16 == 2
HEADER_SIZE == 2 * SIZEOF_INT16
MAX_SIMILARITY == 140
COMPRESSION_LEVEL_WORST == 1
COMPRESSION_LEVEL_BEST == 9
COMPRESSION_LEVEL_DEFAULT == 4

LF == 10
SPACE == 32

(***************************************************************************)
(* Bounds of the model.                                                    *)
(*                                                                         *)
(* MAX_CHUNK_SIZE is math.MaxUint16 + 1 = 65,536 in the source             *)
(* (pack.go:33).  The model keeps every use of it (the two limitSlice      *)
(* calls of Compress and DecompressBound) and scales its value down so     *)
(* that a line that fills a whole chunk is a line of a few bytes.  The     *)
(* header arithmetic (uint16, little endian) keeps its real width.         *)
(***************************************************************************)
MAX_CHUNK_SIZE == 9
\* the value of MAX_CHUNK_SIZE in the source, for the calls on long lines
FULL_CHUNK_SIZE == 65536
\* longest raw input handed to PackBuffer
MaxInput == 6
\* longest payload of an archive made of one arbitrary chunk
MaxPayload == 4
\* largest rawSize an adversarial header declares
MaxRaw == 3
\* an archive made of small chunks holds up to MaxTail + 1 whole chunks
MaxTail == 2
\* longest src of a Compress call on a dst of any size
MaxCallInput == 4
\* how far below 0 and above COMPRESSION_LEVEL_BEST the levels handed to
\* Compress go
LevelsBelow == 2
LevelsAbove == 2
\* largest length handed to encodeLength and longest run of bytes that
\* follows the encoded length in the slice handed to decodeLength
MaxLength == 300
MaxSuffix == 2
\* how far past 0, LENGTH_BASE - 1 and MAX_SIMILARITY - 1 the run of equal
\* bytes at the head of a long line goes
MaxPadOver == 1
\* most lines in the src of a Compress call on long lines
MaxLines == 6
\* pushes into a ring beyond its capacity
MaxOver == 3
\* lines of a chunk whose references are chosen among a few short lines
MaxRingLines == 5
\* bytes of each of two inputs whose archives are joined
MaxHalf == 3

(***************************************************************************)
(* Slices.                                                                 *)
(***************************************************************************)
At(s, i) == s[i + 1]

Slice(s, lo, hi) == SubSeq(s, lo + 1, hi)

Zeros(n) == [i \in 1..n |-> 0]

limitSlice(slice, lengthLimit) ==
    IF Len(slice) > lengthLimit THEN Slice(slice, 0, lengthLimit) ELSE slice

min2(a, b) == IF a < b THEN a ELSE b

min3(a, b, c) == min2(min2(a, b), c)

\* uint16(x): conversion of an int to 16 bits
Uint16(x) == (x + 65536) % 65536

\* byte(x): conversion of an int to 8 bits
ToByte(x) == (x + 256) % 256

\* the first of the indices at which a loop stops, or the index it ends with
\* when it stops at none
leastOf(indices, end) ==
    IF indices = { } THEN end
    ELSE CHOOSE i \in indices : \A j \in indices : i <= j

\* the index at which a loop that walks buffer from startIdx and stops at the
\* first byte equal to char, or at the end, leaves its counter
indexOfFirst(char, startIdx, buffer) ==
    leastOf({ i \in startIdx..(Len(buffer) - 1) : At(buffer, i) = char },
            IF startIdx >= Len(buffer) THEN startIdx ELSE Len(buffer))

indexOfFirstSpace(startIdx, buffer) == indexOfFirst(SPACE, startIdx, buffer)

\* the number of iterations in a row, from idxA in a and idxB in b and below
\* endA and endB, in which a loop finds the two bytes equal
sameRun(a, idxA, endA, b, idxB, endB) ==
    leastOf({ n \in 0..(min2(endA - idxA, endB - idxB) - 1) :
                  At(a, idxA + n) # At(b, idxB + n) },
            min2(endA - idxA, endB - idxB))

lineEnd(src, i) ==
    IF indexOfFirst(LF, i, src) < Len(src)
    THEN indexOfFirst(LF, i, src) + 1
    ELSE Len(src)

splitAt(src, end) == [line |-> Slice(src, 0, end), rest |-> Slice(src, end, Len(src))]

nextLine(src) == splitAt(src, lineEnd(src, 0))

(***************************************************************************)
(* Numeric codec.                                                          *)
(***************************************************************************)
\* an encoder that spends one more byte 0xFF on every length
encodeLengthWide(sameStringLength) ==
    IF sameStringLength = 0 THEN << >>
    ELSE [i \in 1..((sameStringLength \div LENGTH_BASE) + 1) |-> ESCAPE_BYTE + LENGTH_BASE]
         \o << ESCAPE_BYTE + (sameStringLength % LENGTH_BASE) >>

\* an encoder that ends a multiple of LENGTH_BASE without the closing byte
encodeLengthUnclosed(sameStringLength) ==
    IF sameStringLength % LENGTH_BASE = 0
    THEN [i \in 1..(sameStringLength \div LENGTH_BASE) |-> ESCAPE_BYTE + LENGTH_BASE]
    ELSE [i \in 1..(sameStringLength \div LENGTH_BASE) |-> ESCAPE_BYTE + LENGTH_BASE]
         \o << ESCAPE_BYTE + (sameStringLength % LENGTH_BASE) >>

encodeLength(sameStringLength) ==
    IF sameStringLength = 0 THEN << >>
    ELSE IF sameStringLength \div LENGTH_BASE = 0
         THEN << ESCAPE_BYTE + ToByte(sameStringLength) >>
    ELSE [i \in 1..(sameStringLength \div LENGTH_BASE) |-> ESCAPE_BYTE + LENGTH_BASE]
         \o << ESCAPE_BYTE + (sameStringLength % LENGTH_BASE) >>

RECURSIVE decodeLengthFrom(_, _, _)
decodeLengthFrom(compressed, i, acc) ==
    IF i >= Len(compressed)
    THEN [sameStringLength |-> acc, bytesRead |-> i]
    ELSE LET bite == At(compressed, i)
             sum  == acc + ToByte(bite - ESCAPE_BYTE)
         IN  IF bite < ESCAPE_BYTE + LENGTH_BASE
             THEN [sameStringLength |-> sum, bytesRead |-> i + 1]
             ELSE decodeLengthFrom(compressed, i + 1, sum)

\* a decodeLength whose loop ranges over an empty slice: it reads no byte
decodeLengthOfEmpty(compressed) == decodeLengthFrom(Slice(compressed, 0, 0), 0, 0)

decodeLength(compressed) == decodeLengthFrom(compressed, 0, 0)

(***************************************************************************)
(* Byte quoter.  quote writes into a destination whose capacity the caller *)
(* guarantees; the model returns the bytes it writes, in order, and the    *)
(* caller compares their number with the room it has.  quoteSafely is      *)
(* given the room: it checks it before an escape pair only, so an ASCII    *)
(* byte written at index len(dst) is a fault.                              *)
(***************************************************************************)
\* a quoter that escapes every byte, the ASCII ones included
quoteEvery(src) ==
    [i \in 1..(2 * Len(src)) |-> IF i % 2 = 1 THEN ESCAPE_BYTE ELSE src[i \div 2]]

\* the bytes of src are quoted one by one, in order: what is written for src
\* is what is written for its first half followed by what is written for the
\* rest
RECURSIVE quote(_)
quote(src) ==
    IF src = << >> THEN << >>
    ELSE IF Len(src) = 1
    THEN IF Head(src) < ESCAPE_BYTE
         THEN << Head(src) >>
         ELSE << ESCAPE_BYTE, Head(src) >>
    ELSE quote(SubSeq(src, 1, Len(src) \div 2))
             \o quote(SubSeq(src, (Len(src) \div 2) + 1, Len(src)))

\* i + escapedCharsCount when the loop of quoteSafely comes to src[i]
quotedBefore(src, i) ==
    i + Cardinality({ j \in 0..(i - 1) : At(src, j) >= ESCAPE_BYTE })

\* pack.go:362-371 at src[i]: the loop does not go past this byte, either an
\* ASCII byte that is written at index len(dst) or beyond, or an escape pair
\* for which the room test fails
quoteSafelyEnds(dstLen, src, i) ==
    IF At(src, i) < ESCAPE_BYTE
    THEN quotedBefore(src, i) >= dstLen
    ELSE quotedBefore(src, i) + 2 > dstLen

\* the index at which the loop ends, len(src) when it runs through
quoteSafelyStop(dstLen, src) ==
    IF \E i \in 0..(Len(src) - 1) : quoteSafelyEnds(dstLen, src, i)
    THEN CHOOSE i \in 0..(Len(src) - 1) :
             /\ quoteSafelyEnds(dstLen, src, i)
             /\ \A j \in 0..(i - 1) : ~quoteSafelyEnds(dstLen, src, j)
    ELSE Len(src)

\* the loop ended at src[i]: the bytes before it are written as quote writes
\* them, and ending at an ASCII byte is the out-of-range write
quoteSafelyAt(src, i) ==
    [bytesRead |-> i, out |-> quote(Slice(src, 0, i)),
     fault |-> i < Len(src) /\ At(src, i) < ESCAPE_BYTE]

quoteSafely(dstLen, src) == quoteSafelyAt(src, quoteSafelyStop(dstLen, src))

(***************************************************************************)
(* Compression levels.  goodEnoughFactor is a float32 in the source; the   *)
(* model keeps it in hundredths, and GoodEnough compares                   *)
(* 100 * similarity with hundredths * min2(len, MAX_SIMILARITY), which     *)
(* agrees with the float32 comparison of pack.go:96-112 for every length   *)
(* and score up to MAX_SIMILARITY.                                         *)
(***************************************************************************)
compressionLevelPresets ==
    [row \in 0..9 |->
        CASE row = 0 -> [backreferenceCapacity |-> 2,  goodEnoughFactor |-> 80]
          [] row = 1 -> [backreferenceCapacity |-> 2,  goodEnoughFactor |-> 80]
          [] row = 2 -> [backreferenceCapacity |-> 4,  goodEnoughFactor |-> 80]
          [] row = 3 -> [backreferenceCapacity |-> 8,  goodEnoughFactor |-> 80]
          [] row = 4 -> [backreferenceCapacity |-> 16, goodEnoughFactor |-> 80]
          [] row = 5 -> [backreferenceCapacity |-> 32, goodEnoughFactor |-> 80]
          [] row = 6 -> [backreferenceCapacity |-> 64, goodEnoughFactor |-> 80]
          [] row = 7 -> [backreferenceCapacity |-> 64, goodEnoughFactor |-> 90]
          [] row = 8 -> [backreferenceCapacity |-> 64, goodEnoughFactor |-> 95]
          [] OTHER   -> [backreferenceCapacity |-> 64, goodEnoughFactor |-> 100]]

\* a selection in which level 0 is a row of its own
getPresetRow(compressionLevel) ==
    compressionLevelPresets[
        IF compressionLevel < 0 THEN 0
        ELSE IF compressionLevel > COMPRESSION_LEVEL_BEST THEN COMPRESSION_LEVEL_BEST
        ELSE compressionLevel]

getCompressionParameters(compressionLevel) ==
    compressionLevelPresets[
        IF compressionLevel < 0 THEN 0
        ELSE IF compressionLevel = 0 THEN COMPRESSION_LEVEL_DEFAULT
        ELSE IF compressionLevel > COMPRESSION_LEVEL_BEST THEN COMPRESSION_LEVEL_BEST
        ELSE compressionLevel]

GoodEnough(similarity, goodEnoughFactor, compressedLine) ==
    100 * similarity >=
        goodEnoughFactor * min2(Len(compressedLine), MAX_SIMILARITY)

(***************************************************************************)
(* Backreference ring (backrefBuffer).                                     *)
(***************************************************************************)
NewBackref(capacity) ==
    [writeIdx |-> 0, oldestLineIdx |-> 0, capacity |-> capacity,
     lines |-> [i \in 0..(MAX_BACKREFERENCE_CAPACITY - 1) |-> << >>]]

\* a push that never advances oldestLineIdx
addKeepsOldest(backref, line) ==
    [writeIdx |-> (backref.writeIdx + 1) % backref.capacity,
     oldestLineIdx |-> backref.oldestLineIdx,
     capacity |-> backref.capacity,
     lines |-> [backref.lines EXCEPT ![backref.writeIdx] = line]]

\* a push that advances writeIdx before it stores the line
addAfterAdvance(backref, line) ==
    LET w == (backref.writeIdx + 1) % backref.capacity
    IN  [writeIdx |-> w,
         oldestLineIdx |-> IF w = backref.oldestLineIdx
                           THEN (backref.oldestLineIdx + 1) % backref.capacity
                           ELSE backref.oldestLineIdx,
         capacity |-> backref.capacity,
         lines |-> [backref.lines EXCEPT ![w] = line]]

add(backref, line) ==
    LET w == (backref.writeIdx + 1) % backref.capacity
    IN  [writeIdx |-> w,
         oldestLineIdx |-> IF w = backref.oldestLineIdx
                           THEN (backref.oldestLineIdx + 1) % backref.capacity
                           ELSE backref.oldestLineIdx,
         capacity |-> backref.capacity,
         lines |-> [backref.lines EXCEPT ![backref.writeIdx] = line]]

\* the slot that lies linesBefore pushes back (pack.go:100-104, 130-134)
slotOf(backref, linesBefore) ==
    IF backref.writeIdx - linesBefore < 0
    THEN backref.capacity + (backref.writeIdx - linesBefore)
    ELSE backref.writeIdx - linesBefore

getLineAt(backref, linesBefore) == backref.lines[slotOf(backref, linesBefore)]

(***************************************************************************)
(* Similarity estimator.                                                   *)
(***************************************************************************)
commonPrefix(refLine, currLine, i) ==
    i + sameRun(refLine, i, Len(refLine), currLine, i, Len(currLine))

RECURSIVE similarityLoop(_, _, _, _, _, _)
\* pack.go:181-184: n iterations in a row that find the two bytes equal
similaritySame(refLine, currLine, lenLimit, idxRefLine, idxCurrLine, sameStringLength, n) ==
    similarityLoop(refLine, currLine, lenLimit,
                   idxRefLine + n, idxCurrLine + n, sameStringLength + n)

similarityLoop(refLine, currLine, lenLimit, idxRefLine, idxCurrLine, sameStringLength) ==
    IF idxRefLine < lenLimit /\ idxCurrLine < lenLimit
    THEN IF At(currLine, idxCurrLine) = At(refLine, idxRefLine)
         THEN similaritySame(refLine, currLine, lenLimit,
                             idxRefLine, idxCurrLine, sameStringLength,
                             sameRun(refLine, idxRefLine, lenLimit,
                                     currLine, idxCurrLine, lenLimit))
         ELSE sameStringLength
              + similarityLoop(refLine, currLine, lenLimit,
                               indexOfFirstSpace(idxRefLine, refLine),
                               indexOfFirstSpace(idxCurrLine, currLine), 0)
    ELSE sameStringLength

\* pack.go:169-198: the part after the common prefix has been counted
similarityAfterPrefix(refLine, currLine, lenLimit, prefix, idxRefLine, idxCurrLine) ==
    [commonPrefixLength |->
        IF prefix = 0 /\ idxRefLine < Len(refLine) /\ idxCurrLine < Len(currLine)
        THEN -idxRefLine ELSE prefix,
     similarityScore |->
        prefix + similarityLoop(refLine, currLine, lenLimit, idxRefLine, idxCurrLine, 0)]

\* pack.go:153-170: both lines cut to lenLimit, the common prefix, and the
\* first space of each line from there
similarityOfLimited(refLine, currLine, lenLimit, prefix) ==
    similarityAfterPrefix(refLine, currLine, lenLimit, prefix,
                          indexOfFirstSpace(prefix, refLine),
                          indexOfFirstSpace(prefix, currLine))

similarityWithin(refLine, currLine, lenLimit) ==
    similarityOfLimited(limitSlice(refLine, lenLimit), limitSlice(currLine, lenLimit),
                        lenLimit,
                        commonPrefix(limitSlice(refLine, lenLimit),
                                     limitSlice(currLine, lenLimit), 0))

estimateSimilarity(refLine, currLine) ==
    similarityWithin(refLine, currLine,
                     min3(Len(refLine), Len(currLine), MAX_SIMILARITY))

(***************************************************************************)
(* Key-line selector.                                                      *)
(***************************************************************************)
NoLineRef == [line |-> << >>, linesBefore |-> 1, prefixLength |-> 0, similarityScore |-> 0]

\* a replacement that also takes a candidate whose score equals the best
betterOrEqualOf(backref, linesBefore, lineRef, i, est) ==
    IF est.similarityScore >= lineRef.similarityScore
    THEN [line |-> backref.lines[i],
          linesBefore |-> ToByte(linesBefore),
          prefixLength |-> est.commonPrefixLength,
          similarityScore |-> est.similarityScore]
    ELSE lineRef

\* pack.go:107-111: the candidate in slot i, with its estimate est, replaces
\* the best so far when its score is strictly greater
betterOf(backref, linesBefore, lineRef, i, est) ==
    IF est.similarityScore > lineRef.similarityScore
    THEN [line |-> backref.lines[i],
          linesBefore |-> ToByte(linesBefore),
          prefixLength |-> est.commonPrefixLength,
          similarityScore |-> est.similarityScore]
    ELSE lineRef

\* a search that goes round the whole ring, back to the slot writeIdx
searchEndsAtWriteIdx(backref, compressedLine, goodEnoughFactor, lineRef, i, est) ==
    \/ /\ est.similarityScore > lineRef.similarityScore
       /\ GoodEnough(est.similarityScore, goodEnoughFactor, compressedLine)
    \/ i = backref.writeIdx

\* a search that ends at the oldest line only
searchEndsAtOldest(backref, compressedLine, goodEnoughFactor, lineRef, i, est) ==
    i = backref.oldestLineIdx

\* pack.go:107-121: the two breaks of the loop, after the candidate in slot i
searchEnds(backref, compressedLine, goodEnoughFactor, lineRef, i, est) ==
    \/ /\ est.similarityScore > lineRef.similarityScore
       /\ GoodEnough(est.similarityScore, goodEnoughFactor, compressedLine)
    \/ i = backref.oldestLineIdx

RECURSIVE chooseFrom(_, _, _, _, _)
\* pack.go:107-121: one candidate, the line in slot i with its estimate est
chooseAt(backref, compressedLine, goodEnoughFactor, linesBefore, lineRef, i, est) ==
    IF searchEnds(backref, compressedLine, goodEnoughFactor, lineRef, i, est)
    THEN betterOf(backref, linesBefore, lineRef, i, est)
    ELSE chooseFrom(backref, compressedLine, goodEnoughFactor, linesBefore + 1,
                    betterOf(backref, linesBefore, lineRef, i, est))

\* pack.go:99-106: one iteration of the search, linesBefore pushes back
chooseFrom(backref, compressedLine, goodEnoughFactor, linesBefore, lineRef) ==
    chooseAt(backref, compressedLine, goodEnoughFactor, linesBefore, lineRef,
             slotOf(backref, linesBefore),
             estimateSimilarity(backref.lines[slotOf(backref, linesBefore)],
                                compressedLine))

chooseReferenceLine(backref, compressedLine, goodEnoughFactor) ==
    chooseFrom(backref, compressedLine, goodEnoughFactor, 1, NoLineRef)

(***************************************************************************)
(* Line compressor.  It returns the bytes it writes to dst, in order: the  *)
(* writes of compressLine, encodeLength and quote are contiguous from      *)
(* dst[0], so it stays inside dst exactly when their number is at most     *)
(* len(dst).                                                               *)
(***************************************************************************)
\* b | NO_SHARED_PREFIX_FLAG
OrNoSharedPrefix(b) ==
    IF (b \div NO_SHARED_PREFIX_FLAG) % 2 = 1 THEN b ELSE b + NO_SHARED_PREFIX_FLAG

RECURSIVE compressLineLoop(_, _, _, _, _, _)
\* pack.go:321-332: the end of a common sequence; the skipped bytes of
\* currLine, up to its next space, are quoted
compressLineSkip(keyLine, currLine, idxKeyLine, idxCurrLine, idxNextSpaceCurrLine, out) ==
    compressLineLoop(keyLine, currLine, indexOfFirstSpace(idxKeyLine, keyLine),
                     idxNextSpaceCurrLine, 0,
                     out \o quote(Slice(currLine, idxCurrLine, idxNextSpaceCurrLine)))

\* pack.go:316-319: n iterations in a row that find the two bytes equal
compressLineSame(keyLine, currLine, idxKeyLine, idxCurrLine, sameStringLength, out, n) ==
    compressLineLoop(keyLine, currLine, idxKeyLine + n, idxCurrLine + n,
                     sameStringLength + n, out)

compressLineLoop(keyLine, currLine, idxKeyLine, idxCurrLine, sameStringLength, out) ==
    IF idxKeyLine < Len(keyLine) /\ idxCurrLine < Len(currLine)
    THEN IF At(currLine, idxCurrLine) = At(keyLine, idxKeyLine)
         THEN compressLineSame(keyLine, currLine, idxKeyLine, idxCurrLine,
                               sameStringLength, out,
                               sameRun(keyLine, idxKeyLine, Len(keyLine),
                                       currLine, idxCurrLine, Len(currLine)))
         ELSE compressLineSkip(keyLine, currLine, idxKeyLine, idxCurrLine,
                               indexOfFirstSpace(idxCurrLine, currLine),
                               out \o encodeLength(sameStringLength))
    ELSE out \o encodeLength(sameStringLength)
             \o quote(Slice(currLine, idxCurrLine, Len(currLine)))

compressLine(lineRef, currLine) ==
    IF lineRef.prefixLength < 0
    THEN compressLineLoop(lineRef.line, currLine, -lineRef.prefixLength, 0, 0,
             << OrNoSharedPrefix(ToByte(lineRef.linesBefore + ESCAPE_BYTE)) >>
                 \o encodeLength(-lineRef.prefixLength))
    ELSE compressLineLoop(lineRef.line, currLine, lineRef.prefixLength,
             lineRef.prefixLength, lineRef.prefixLength,
             << ToByte(lineRef.linesBefore + ESCAPE_BYTE) >>)

(***************************************************************************)
(* Chunk header.                                                           *)
(***************************************************************************)
PutUint16(x) == << x % 256, x \div 256 >>

storeHeader(compressedSize, rawSize) ==
    PutUint16(Uint16(compressedSize - 1)) \o PutUint16(Uint16(rawSize - 1))

readHeader(header) ==
    [compressedSize |-> At(header, 0) + 256 * At(header, 1) + 1,
     rawSize |-> At(header, SIZEOF_INT16) + 256 * At(header, SIZEOF_INT16 + 1) + 1]

DecompressBound == MAX_CHUNK_SIZE + HEADER_SIZE

(***************************************************************************)
(* Chunk compressor.  Compress(dstLen, src, level) is one call of Compress *)
(* with a dst of dstLen bytes: fault says that the call indexed or sliced  *)
(* outside a slice; wrote is what the call stored into dst, from dst[0].   *)
(***************************************************************************)
RECURSIVE compressLines(_, _, _, _, _, _)
\* pack.go:269-274: the packed line is in dst; the counts and the ring advance
compressLinesPut(nl, backref, goodEnoughFactor, dstLeft, bytesRead, out, packed) ==
    IF Len(packed) > dstLeft
    THEN [bytesRead |-> bytesRead, out |-> out, fault |-> TRUE]
    ELSE compressLines(nl.rest, add(backref, nl.line), goodEnoughFactor,
                       dstLeft - Len(packed), bytesRead + Len(nl.line), out \o packed)

\* pack.go:260-268: the loop condition, the space guard, the key line
compressLinesAt(nl, backref, goodEnoughFactor, dstLeft, bytesRead, out) ==
    IF Len(nl.line) = 0 \/ dstLeft < 2 * Len(nl.line) + 2
    THEN [bytesRead |-> bytesRead, out |-> out, fault |-> FALSE]
    ELSE compressLinesPut(nl, backref, goodEnoughFactor, dstLeft, bytesRead, out,
             compressLine(chooseReferenceLine(backref, nl.line, goodEnoughFactor),
                          nl.line))

compressLines(src, backref, goodEnoughFactor, dstLeft, bytesRead, out) ==
    compressLinesAt(nextLine(src), backref, goodEnoughFactor, dstLeft, bytesRead, out)

\* pack.go:283-284: the header and the counts
compressReturn(r) ==
    IF r.fault
    THEN [fault |-> TRUE, bytesRead |-> r.bytesRead, bytesWritten |-> Len(r.out),
          wrote |-> << >>]
    ELSE [fault |-> FALSE, bytesRead |-> r.bytesRead,
          bytesWritten |-> Len(r.out) + HEADER_SIZE,
          wrote |-> storeHeader(Len(r.out), r.bytesRead) \o r.out]

\* pack.go:257-281: the first line has been quoted (q); the other lines
compressAfterFirst(room, fl, compressionParams, q) ==
    IF q.fault
    THEN [fault |-> TRUE, bytesRead |-> q.bytesRead, bytesWritten |-> Len(q.out),
          wrote |-> << >>]
    ELSE compressReturn(
             compressLines(fl.rest,
                 add(NewBackref(compressionParams.backreferenceCapacity), fl.line),
                 compressionParams.goodEnoughFactor,
                 room - Len(q.out), q.bytesRead, q.out))

\* pack.go:250-257: the first line fl goes into a fresh ring and is quoted
compressFirst(room, fl, compressionParams) ==
    compressAfterFirst(room, fl, compressionParams, quoteSafely(room, fl.line))

\* pack.go:235-285 with MAX_CHUNK_SIZE as a parameter
CompressChunk(maxChunkSize, dstLen, src, compressionLevel) ==
    IF dstLen < HEADER_SIZE
    THEN [fault |-> TRUE, bytesRead |-> 0, bytesWritten |-> 0, wrote |-> << >>]
    ELSE compressFirst(min2(dstLen - HEADER_SIZE, maxChunkSize),
                       nextLine(limitSlice(src, maxChunkSize)),
                       getCompressionParameters(compressionLevel))

Compress(dstLen, src, compressionLevel) ==
    CompressChunk(MAX_CHUNK_SIZE, dstLen, src, compressionLevel)

(***************************************************************************)
(* State.                                                                  *)
(*                                                                         *)
(*   pc, fault       where the run is, and the run-time panic that ended   *)
(*                   it ("none" while there is none)                       *)
(*   input, level    the raw bytes and the level handed to the packer      *)
(*   fileContent, outBuff   PackBuffer's remaining input and its output    *)
(*   call            the last Compress call: its arguments and results     *)
(*   src, dst        the two slices handed to Decompress                   *)
(*   srcOff, dstOff  how far Decompress has advanced srcCompressed and dst *)
(*   bytesRead, bytesWritten, chunkResult, chunkSize, rawSize, iter        *)
(*                   the locals of Decompress; iter tells the code before  *)
(*                   the loop ("first") from the loop ("later")            *)
(*   compressed, chunkWritten, idxLineBegin, backref, keyLine, idxKeyLine, *)
(*   idxCompressed, lastDecompressedLine                                   *)
(*                   the locals of decompressChunk                         *)
(*   chunkRet        the value decompressChunk returns                     *)
(*   result, stopAt  what Decompress returned and at which return          *)
(*   probe           what a call of one function alone was given and what  *)
(*                   it returned                                           *)
(*   chunkFailed, goodRead, goodWritten, lineMark                          *)
(*                   history: whether a chunk of this call reported        *)
(*                   corruption, the compressed and raw sizes of the       *)
(*                   chunks that decoded without error, and the input      *)
(*                   position at the top of the current line iteration     *)
(***************************************************************************)
VARIABLES pc, fault, input, level, fileContent, outBuff, call, probe,
          src, dst, srcOff, dstOff, bytesRead, bytesWritten, chunkResult,
          chunkSize, rawSize, iter,
          compressed, chunkWritten, idxLineBegin, backref, keyLine, idxKeyLine,
          idxCompressed, lastDecompressedLine, chunkRet, result, stopAt,
          chunkFailed, goodRead, goodWritten, lineMark

packVars == << input, level, fileContent, outBuff, call, probe >>
callVars == << src, srcOff, dstOff, bytesRead, bytesWritten, chunkResult,
               chunkSize, rawSize, iter >>
chunkVars == << compressed, chunkWritten, idxLineBegin, backref, keyLine,
                idxKeyLine, idxCompressed, lastDecompressedLine, chunkRet, lineMark >>
histVars == << chunkFailed, goodRead, goodWritten >>
vars == << pc, fault, packVars, callVars, dst, chunkVars, result, stopAt, histVars >>

NoCall == [made |-> FALSE, dstLen |-> 0, srcLen |-> 0, bytesRead |-> 0,
           bytesWritten |-> 0, wrote |-> << >>]

NoResult == << >>

NoProbe == [kind |-> "none"]

RECURSIVE SeqsUpTo(_, _)
SeqsUpTo(alphabet, n) ==
    IF n = 0 THEN { << >> }
    ELSE LET shorter == SeqsUpTo(alphabet, n - 1)
         IN  shorter \cup { Append(s, b) : s \in shorter, b \in alphabet }

\* a newline, a space, an ASCII letter and a byte with the high bit set
InputBytes == { LF, SPACE, 97, 129 }
Inputs == SeqsUpTo(InputBytes, MaxInput)
\* the smallest ring, the default level and the best level
Levels == { COMPRESSION_LEVEL_WORST, COMPRESSION_LEVEL_DEFAULT, COMPRESSION_LEVEL_BEST }

DecoderIdle ==
    /\ srcOff = 0 /\ dstOff = 0
    /\ bytesRead = 0 /\ bytesWritten = 0 /\ chunkResult = 0
    /\ chunkSize = 0 /\ rawSize = 0 /\ iter = "first"
    /\ compressed = << >> /\ chunkWritten = 0 /\ idxLineBegin = 0
    /\ backref = NewBackref(MAX_BACKREFERENCE_CAPACITY)
    /\ keyLine = << >> /\ idxKeyLine = 0 /\ idxCompressed = 0
    /\ lastDecompressedLine = << >> /\ chunkRet = 0 /\ lineMark = 0
    /\ result = NoResult /\ stopAt = "none"
    /\ chunkFailed = FALSE /\ goodRead = 0 /\ goodWritten = 0

\* PackBuffer / TestCompressEmpty are about to pack input at level
Init ==
    /\ pc = "pack" /\ fault = "none"
    /\ input \in Inputs /\ level \in Levels
    /\ fileContent = input /\ outBuff = << >> /\ call = NoCall
    /\ probe = NoProbe
    /\ src = << >> /\ dst = << >>
    /\ DecoderIdle

(***************************************************************************)
(* The packer.                                                             *)
(***************************************************************************)
CallRecord(dstLen, srcAll, r) ==
    [made |-> TRUE, dstLen |-> dstLen, srcLen |-> Len(srcAll),
     bytesRead |-> r.bytesRead, bytesWritten |-> r.bytesWritten, wrote |-> r.wrote]

\* Decompress(dst, srcCompressed) is about to be called
StartUnpack(packed, dstLen) ==
    /\ src' = packed
    /\ dst' = Zeros(dstLen)
    /\ pc' = "unpack"

\* main.go:166-190 and pack_test.go:95-104: one iteration of the caller's
\* loop, a Compress call on a dst of DecompressBound() bytes (PackBuffer
\* hands over a longer outBuff, which limitSlice cuts to the same room);
\* after the last one the output goes to UnpackBuffer with a dst of the
\* input's size.
PackBufferInto(spares) ==
    /\ pc = "pack" /\ Len(fileContent) > 0
    /\ LET r == Compress(DecompressBound, fileContent, level)
       IN  /\ call' = CallRecord(DecompressBound, fileContent, r)
           /\ IF r.fault
              THEN /\ fault' = "Compress" /\ pc' = "panic"
                   /\ UNCHANGED << fileContent, outBuff, src, dst >>
              ELSE /\ fileContent' = Slice(fileContent, r.bytesRead, Len(fileContent))
                   /\ outBuff' = outBuff \o r.wrote
                   /\ fault' = fault
                   /\ IF r.bytesRead = Len(fileContent)
                      THEN \E spare \in spares :
                               StartUnpack(outBuff \o r.wrote, Len(input) + spare)
                      ELSE pc' = "pack" /\ UNCHANGED << src, dst >>
    /\ UNCHANGED << input, level, probe, srcOff, dstOff, bytesRead, bytesWritten,
                    chunkResult, chunkSize, rawSize, iter, chunkVars, result, stopAt,
                    histVars >>

PackBufferStep == PackBufferInto({ 0 })

\* the same loop, with the output unpacked into a dst of the input's size or
\* one byte longer
PackBufferSpare == PackBufferInto({ 0, 1 })

\* cornerCases_test.go:66-83: Compress on an empty input, then Decompress of
\* packedBuff[:written]
CompressEmpty ==
    /\ pc = "pack" /\ Len(fileContent) = 0 /\ ~call.made
    /\ \E dstLen \in 0..DecompressBound :
         LET r == Compress(dstLen, fileContent, level)
         IN  /\ call' = CallRecord(dstLen, fileContent, r)
             /\ IF r.fault
                THEN /\ fault' = "Compress" /\ pc' = "panic"
                     /\ UNCHANGED << outBuff, src, dst >>
                ELSE /\ outBuff' = r.wrote
                     /\ fault' = fault
                     /\ StartUnpack(r.wrote, Len(input))
    /\ UNCHANGED << input, level, fileContent, probe, srcOff, dstOff, bytesRead,
                    bytesWritten, chunkResult, chunkSize, rawSize, iter, chunkVars,
                    result, stopAt, histVars >>

(***************************************************************************)
(* Decompress.                                                             *)
(***************************************************************************)
\* a return that hands back the counts accumulated so far, whatever it is
\* given
ReturnCounts(read, written, why) ==
    /\ result' = << bytesRead, bytesWritten >>
    /\ stopAt' = why
    /\ pc' = "done"

Return(read, written, why) ==
    /\ result' = << read, written >>
    /\ stopAt' = why
    /\ pc' = "done"

\* a loop that answers a chunk cut short the way the code before the loop does
LaterShortInputAsFirst(read, written) == << NOT_ENOUGH_INPUT, 0 >>

\* what the loop returns when the next chunk is not whole (pack.go:498)
LaterShortInput(read, written) == << read, written >>

\* what the loop returns when the next chunk does not fit dst (pack.go:501)
LaterShortOutput(read, written) == << read, written >>

\* decompressChunk(srcCompressed[:chunkSize], dst[:rawSize]) is entered
EnterChunk(off, header) ==
    /\ chunkSize' = header.compressedSize
    /\ rawSize' = header.rawSize
    /\ srcOff' = off
    /\ compressed' = Slice(src, off, off + header.compressedSize)
    /\ pc' = "chunk"

\* pack.go:465-484: the code before the loop, up to the first decompressChunk
DecompressCall ==
    /\ pc = "unpack"
    /\ iter' = "first"
    /\ IF Len(src) < HEADER_SIZE
       THEN /\ Return(NOT_ENOUGH_INPUT, 0, "short_header")
            /\ UNCHANGED << bytesRead, chunkSize, rawSize, srcOff, compressed >>
       ELSE LET header == readHeader(src)
            IN  IF Len(src) - HEADER_SIZE < header.compressedSize
                THEN /\ Return(NOT_ENOUGH_INPUT, 0, "short_input")
                     /\ chunkSize' = header.compressedSize
                     /\ rawSize' = header.rawSize
                     /\ srcOff' = HEADER_SIZE
                     /\ UNCHANGED << bytesRead, compressed >>
                ELSE IF Len(dst) < header.rawSize
                THEN /\ Return(NOT_ENOUGH_OUTPUT_SPACE, 0, "short_output")
                     /\ chunkSize' = header.compressedSize
                     /\ rawSize' = header.rawSize
                     /\ srcOff' = HEADER_SIZE
                     /\ UNCHANGED << bytesRead, compressed >>
                ELSE /\ EnterChunk(HEADER_SIZE, header)
                     /\ bytesRead' = bytesRead + header.compressedSize + HEADER_SIZE
                     /\ UNCHANGED << result, stopAt >>
    /\ UNCHANGED << fault, packVars, src, dst, dstOff, bytesWritten, chunkResult,
                    chunkWritten, idxLineBegin, backref, keyLine, idxKeyLine,
                    idxCompressed, lastDecompressedLine, chunkRet, lineMark, histVars >>

\* a loop that stops after the first chunk
NoMoreChunks(remaining) == FALSE

\* pack.go:494: the loop condition, on the length of what is left of
\* srcCompressed
MoreChunks(remaining) == remaining >= HEADER_SIZE

\* pack.go:494-502 and 513: the loop condition, the header of the next chunk
\* and the two early returns
LoopHead ==
    /\ pc = "loop"
    /\ IF MoreChunks(Len(src) - srcOff)
       THEN LET header == readHeader(Slice(src, srcOff, srcOff + HEADER_SIZE))
                off == srcOff + HEADER_SIZE
            IN  IF Len(src) - off < header.compressedSize
                THEN /\ result' = LaterShortInput(bytesRead, bytesWritten)
                     /\ stopAt' = "short_input" /\ pc' = "done"
                     /\ chunkSize' = header.compressedSize
                     /\ rawSize' = header.rawSize
                     /\ srcOff' = off
                     /\ UNCHANGED compressed
                ELSE IF Len(dst) - dstOff < header.rawSize
                THEN /\ result' = LaterShortOutput(bytesRead, bytesWritten)
                     /\ stopAt' = "short_output" /\ pc' = "done"
                     /\ chunkSize' = header.compressedSize
                     /\ rawSize' = header.rawSize
                     /\ srcOff' = off
                     /\ UNCHANGED compressed
                ELSE /\ EnterChunk(off, header)
                     /\ UNCHANGED << result, stopAt >>
       ELSE /\ Return(bytesRead, bytesWritten, "end")
            /\ UNCHANGED << chunkSize, rawSize, srcOff, compressed >>
    /\ UNCHANGED << fault, packVars, src, dst, dstOff, bytesRead, bytesWritten,
                    chunkResult, iter, chunkWritten, idxLineBegin, backref, keyLine,
                    idxKeyLine, idxCompressed, lastDecompressedLine, chunkRet,
                    lineMark, histVars >>

\* pack.go:485-492 (first chunk) and 504-511 (loop): decompressChunk has
\* returned chunkRet.  The loop adds the value to bytesWritten before it
\* tests chunkResult, a variable that only the first chunk assigns.
ChunkReturn ==
    /\ pc = "chunkret"
    /\ chunkFailed' = (chunkFailed \/ chunkRet < 0)
    /\ goodRead' = IF chunkRet < 0 THEN goodRead ELSE goodRead + chunkSize + HEADER_SIZE
    /\ goodWritten' = IF chunkRet < 0 THEN goodWritten ELSE goodWritten + chunkRet
    /\ IF iter = "first"
       THEN /\ chunkResult' = chunkRet
            /\ iter' = "later"
            /\ UNCHANGED bytesRead
            /\ IF chunkRet < 0
               THEN /\ Return(CORRUPT_INPUT, 0, "corrupt")
                    /\ UNCHANGED << bytesWritten, srcOff, dstOff >>
               ELSE /\ bytesWritten' = bytesWritten + chunkRet
                    /\ srcOff' = srcOff + chunkSize
                    /\ dstOff' = dstOff + rawSize
                    /\ pc' = "loop"
                    /\ UNCHANGED << result, stopAt >>
       ELSE /\ bytesWritten' = bytesWritten + chunkRet
            /\ UNCHANGED << chunkResult, iter >>
            /\ IF chunkResult < 0
               THEN /\ Return(CORRUPT_INPUT, 0, "corrupt")
                    /\ UNCHANGED << bytesRead, srcOff, dstOff >>
               ELSE /\ srcOff' = srcOff + chunkSize
                    /\ dstOff' = dstOff + rawSize
                    /\ bytesRead' = bytesRead + chunkSize + HEADER_SIZE
                    /\ pc' = "loop"
                    /\ UNCHANGED << result, stopAt >>
    /\ UNCHANGED << fault, packVars, src, dst, chunkSize, rawSize, chunkVars >>

(***************************************************************************)
(* decompressChunk.  Its dst is dst[dstOff : dstOff + rawSize] of the      *)
(* caller, its compressed the chunk's payload.                             *)
(***************************************************************************)
\* the input position: the bytes of src consumed so far
Consumed ==
    IF pc \in { "token", "lineend" }
    THEN srcOff + (chunkSize - Len(compressed)) + idxCompressed
    ELSE IF pc \in { "chunk", "line" }
    THEN srcOff + (chunkSize - Len(compressed))
    ELSE srcOff

\* a return that hands back the count of bytes written on every path
ChunkReturnsWritten(value) ==
    /\ chunkRet' = chunkWritten
    /\ pc' = "chunkret"

ChunkReturns(value) ==
    /\ chunkRet' = value
    /\ pc' = "chunkret"

\* an entry that does not look at the first payload byte
StartsAnyhow(payload) == FALSE

\* pack.go:525: the first byte of the payload is a line reference
StartsWithLineRef(payload) == At(payload, 0) > ESCAPE_BYTE

\* an entry that goes on with the ring of the chunk before
RingKept(previous) == previous

\* pack.go:518-519: the ring of a chunk, whatever ring the chunk before had
RingAtEntry(previous) == NewBackref(MAX_BACKREFERENCE_CAPACITY)

\* pack.go:516-528: a fresh ring, and the test of the first payload byte
ChunkEntry ==
    /\ pc = "chunk"
    /\ backref' = RingAtEntry(backref)
    /\ chunkWritten' = 0
    /\ idxLineBegin' = 0
    /\ IF StartsWithLineRef(compressed)
       THEN ChunkReturns(-1)
       ELSE pc' = "line" /\ UNCHANGED chunkRet
    /\ UNCHANGED << fault, packVars, callVars, dst, compressed, keyLine, idxKeyLine,
                    idxCompressed, lastDecompressedLine, lineMark, result, stopAt,
                    histVars >>

\* pack.go:531-548: the top of the line loop and the line reference
LineBegin ==
    /\ pc = "line"
    /\ lineMark' = Consumed
    /\ IF Len(compressed) = 0
       THEN /\ ChunkReturns(chunkWritten)
            /\ UNCHANGED << fault, compressed, keyLine, idxKeyLine, idxCompressed,
                            lastDecompressedLine >>
       ELSE /\ lastDecompressedLine' = << >>
            /\ idxCompressed' = 0
            /\ IF At(compressed, 0) > ESCAPE_BYTE
               THEN LET firstByte == At(compressed, 0)
                        rest == Tail(compressed)
                        linesBefore == firstByte % NO_SHARED_PREFIX_FLAG
                        initial == decodeLength(rest)
                    IN  IF linesBefore > backref.capacity
                        THEN /\ fault' = "getLineAt" /\ pc' = "panic"
                             /\ UNCHANGED << compressed, keyLine, idxKeyLine, chunkRet >>
                        ELSE /\ keyLine' = getLineAt(backref, linesBefore)
                             /\ IF (firstByte \div NO_SHARED_PREFIX_FLAG) % 2 = 1
                                THEN /\ idxKeyLine' = initial.sameStringLength
                                     /\ compressed' = Slice(rest, initial.bytesRead, Len(rest))
                                ELSE /\ idxKeyLine' = 0
                                     /\ compressed' = rest
                             /\ pc' = "token"
                             /\ UNCHANGED << fault, chunkRet >>
               ELSE /\ keyLine' = << >>
                    /\ idxKeyLine' = 0
                    /\ pc' = "token"
                    /\ UNCHANGED << fault, compressed, chunkRet >>
    /\ UNCHANGED << packVars, callVars, dst, chunkWritten, idxLineBegin, backref,
                    result, stopAt, histVars >>

\* dst[lo : hi] of decompressChunk
ChunkDst(buffer, lo, hi) == Slice(buffer, dstOff + lo, dstOff + hi)

\* copy(dst[bytesWritten:], keyLine[idxKeyLine:idxKeyLine+length]): copy stops
\* at the end of the shorter slice
CopyFromKey(length) ==
    [i \in 1..Len(dst) |->
        LET k == i - 1 - dstOff - chunkWritten
        IN  IF k >= 0 /\ k < length /\ i - 1 - dstOff < rawSize
            THEN At(keyLine, idxKeyLine + k)
            ELSE dst[i]]

\* a line is closed when the byte just written is a newline
AfterByte(newDst, written) ==
    IF At(newDst, dstOff + written - 1) = LF
    THEN /\ lastDecompressedLine' = ChunkDst(newDst, idxLineBegin, written)
         /\ idxLineBegin' = written
         /\ pc' = "lineend"
    ELSE /\ pc' = "token"
         /\ UNCHANGED << lastDecompressedLine, idxLineBegin >>

\* pack.go:552-601: the loop condition and one token (a length token or a
\* literal byte).  After a length token dst[bytesWritten-1] is read with no
\* test of bytesWritten against len(dst): an index outside dst is a fault.
Token ==
    /\ pc = "token"
    /\ IF idxCompressed >= Len(compressed)
       THEN /\ pc' = "lineend"
            /\ UNCHANGED << fault, dst, chunkWritten, idxLineBegin, idxKeyLine,
                            idxCompressed, lastDecompressedLine, chunkRet >>
       ELSE IF At(compressed, idxCompressed) > ESCAPE_BYTE
       THEN LET d == decodeLength(Slice(compressed, idxCompressed, Len(compressed)))
                length == d.sameStringLength
            IN  /\ idxCompressed' = idxCompressed + d.bytesRead
                /\ IF Len(keyLine) - idxKeyLine < length
                   THEN /\ ChunkReturns(-1)
                        /\ UNCHANGED << fault, dst, chunkWritten, idxLineBegin,
                                        idxKeyLine, lastDecompressedLine >>
                   ELSE /\ dst' = CopyFromKey(length)
                        /\ idxKeyLine' = indexOfFirstSpace(idxKeyLine + length, keyLine)
                        /\ chunkWritten' = chunkWritten + length
                        /\ UNCHANGED chunkRet
                        /\ IF chunkWritten + length > rawSize \/ chunkWritten + length < 1
                           THEN /\ fault' = "Decompress" /\ pc' = "panic"
                                /\ UNCHANGED << lastDecompressedLine, idxLineBegin >>
                           ELSE /\ AfterByte(CopyFromKey(length), chunkWritten + length)
                                /\ UNCHANGED fault
       ELSE LET escaped == At(compressed, idxCompressed) = ESCAPE_BYTE
                idx == IF escaped THEN idxCompressed + 1 ELSE idxCompressed
                put == [dst EXCEPT ![dstOff + chunkWritten + 1] = At(compressed, idx)]
            IN  IF (escaped /\ idx >= Len(compressed)) \/ chunkWritten >= rawSize
                THEN /\ ChunkReturns(-1)
                     /\ idxCompressed' = idx
                     /\ UNCHANGED << fault, dst, chunkWritten, idxLineBegin, idxKeyLine,
                                     lastDecompressedLine >>
                ELSE /\ dst' = put
                     /\ idxCompressed' = idx + 1
                     /\ chunkWritten' = chunkWritten + 1
                     /\ AfterByte(put, chunkWritten + 1)
                     /\ UNCHANGED << fault, idxKeyLine, chunkRet >>
    /\ UNCHANGED << packVars, callVars, compressed, backref, keyLine, lineMark,
                    result, stopAt, histVars >>

\* pack.go:604-605: the line goes into the ring and compressed advances; the
\* locals of the loop body go out of scope
LineEnd ==
    /\ pc = "lineend"
    /\ backref' = add(backref, lastDecompressedLine)
    /\ compressed' = Slice(compressed, idxCompressed, Len(compressed))
    /\ keyLine' = << >>
    /\ idxKeyLine' = 0
    /\ idxCompressed' = 0
    /\ lastDecompressedLine' = << >>
    /\ pc' = "line"
    /\ UNCHANGED << fault, packVars, callVars, dst, chunkWritten, idxLineBegin,
                    chunkRet, lineMark, result, stopAt, histVars >>

DecompressStep ==
    \/ DecompressCall
    \/ ChunkEntry
    \/ LineBegin
    \/ Token
    \/ LineEnd
    \/ ChunkReturn
    \/ LoopHead

Next ==
    \/ PackBufferStep
    \/ CompressEmpty
    \/ DecompressStep

Spec == Init /\ [][Next]_vars

(***************************************************************************)
(* Decompress on arbitrary input.  The archive is either one chunk with an *)
(* arbitrary payload and an arbitrary declared rawSize, or a run of small  *)
(* whole chunks (valid, corrupt, or declaring more raw bytes than they     *)
(* hold) that may end with a piece cut short; dst holds the declared raw   *)
(* bytes, one byte less or one byte more.                                  *)
(***************************************************************************)
\* a newline, a letter, the escape byte, "1" as a line reference or a length,
\* a line reference with the no-shared-prefix flag, and the long-length byte
PayloadBytes == { LF, 97, ESCAPE_BYTE, 129, 193, 255 }

Header(compressedSize, declaredRaw) == storeHeader(compressedSize, declaredRaw)

AdversarialChunks ==
    { Header(Len(p), raw) \o p :
        p \in SeqsUpTo(PayloadBytes, MaxPayload) \ { << >> }, raw \in 1..MaxRaw }

SmallChunks ==
    { Header(1, 1) \o << 97 >>,          \* a valid chunk: "a"
      Header(2, 2) \o << 97, LF >>,      \* a valid chunk: "a\n"
      Header(1, 1) \o << 129 >>,         \* corrupt: a line reference first
      Header(1, 3) \o << 97 >> }         \* 3 raw bytes declared, 1 decoded

CutTails ==
    { << >>,                             \* the archive ends with a whole chunk
      Header(2, 1) \o << 97 >>,          \* cut short: 2 bytes declared, 1 present
      << 0, 0 >> }                       \* half a header

RECURSIVE ChunkRuns(_)
ChunkRuns(n) ==
    IF n = 0 THEN { << >> }
    ELSE LET shorter == ChunkRuns(n - 1)
         IN  shorter \cup { run \o c : run \in shorter, c \in SmallChunks }

\* the raw sizes the headers of an archive declare, added up while headers
\* can be read
RECURSIVE DeclaredRaw(_)
DeclaredRaw(archive) ==
    IF Len(archive) < HEADER_SIZE THEN 0
    ELSE LET header == readHeader(archive)
             next == HEADER_SIZE + header.compressedSize
         IN  header.rawSize
             + (IF next > Len(archive) THEN 0
                ELSE DeclaredRaw(Slice(archive, next, Len(archive))))

Archives ==
    AdversarialChunks
        \cup { run \o tail : run \in ChunkRuns(MaxTail + 1), tail \in CutTails }

InitD ==
    /\ pc = "unpack" /\ fault = "none"
    /\ input = << >> /\ level = COMPRESSION_LEVEL_DEFAULT
    /\ fileContent = << >> /\ outBuff = << >> /\ call = NoCall
    /\ probe = NoProbe
    /\ src \in Archives
    /\ \E spare \in -1..1 :
          /\ DeclaredRaw(src) + spare >= 0
          /\ dst = Zeros(DeclaredRaw(src) + spare)
    /\ DecoderIdle

NextD == DecompressStep

SpecD == InitD /\ [][NextD]_vars

\* a call runs to its end: no step of it waits for anything
FairSpecD == SpecD /\ WF_vars(NextD)


(***************************************************************************)
(* A non-empty input packed by the caller's loop and unpacked by one       *)
(* Decompress call into a dst that is long enough.                         *)
(***************************************************************************)
\* the archives of the best level, whose lines refer as far back as the ring
\* goes
InitA ==
    /\ Init /\ Len(input) > 0
    /\ level = COMPRESSION_LEVEL_BEST

NextA == PackBufferSpare \/ DecompressStep

SpecA == InitA /\ [][NextA]_vars

(***************************************************************************)
(* One Compress call on a dst of any size that holds the header: from a    *)
(* dst with no room behind the header to one longer than                   *)
(* DecompressBound().                                                      *)
(***************************************************************************)
InitC ==
    /\ pc = "compress" /\ fault = "none"
    /\ input \in SeqsUpTo(InputBytes, MaxCallInput) /\ level \in Levels
    /\ fileContent = input /\ outBuff = << >> /\ call = NoCall
    /\ probe = NoProbe
    /\ src = << >> /\ dst = << >>
    /\ DecoderIdle

\* Compress(dst, src, compressionLevel) with len(dst) = dstLen
CompressCall ==
    /\ pc = "compress"
    /\ \E dstLen \in HEADER_SIZE..(DecompressBound + 1) :
         LET r == Compress(dstLen, fileContent, level)
         IN  /\ call' = CallRecord(dstLen, fileContent, r)
             /\ outBuff' = r.wrote
             /\ IF r.fault
                THEN fault' = "Compress" /\ pc' = "panic"
                ELSE fault' = fault /\ pc' = "compressed"
    /\ UNCHANGED << input, level, fileContent, probe, callVars, dst, chunkVars,
                    result, stopAt, histVars >>

NextC == CompressCall

SpecC == InitC /\ [][NextC]_vars

(***************************************************************************)
(* One Compress call at any integer level, the levels outside 1..9         *)
(* included, with the parameters the call works with (pack.go:250).        *)
(***************************************************************************)
AnyLevels == (0 - LevelsBelow)..(COMPRESSION_LEVEL_BEST + LevelsAbove)

InitL ==
    /\ pc = "compress" /\ fault = "none"
    /\ input \in SeqsUpTo(InputBytes, MaxCallInput) /\ Len(input) > 0
    /\ level \in AnyLevels
    /\ fileContent = input /\ outBuff = << >> /\ call = NoCall
    /\ probe = NoProbe
    /\ src = << >> /\ dst = << >>
    /\ DecoderIdle

\* Compress(dst, src, compressionLevel) with a dst of DecompressBound() bytes
CompressAtLevel ==
    /\ pc = "compress"
    /\ LET r == Compress(DecompressBound, fileContent, level)
       IN  /\ call' = CallRecord(DecompressBound, fileContent, r)
           /\ outBuff' = r.wrote
           /\ IF r.fault
              THEN fault' = "Compress" /\ pc' = "panic"
              ELSE fault' = fault /\ pc' = "compressed"
    /\ probe' = [kind |-> "parameters",
                 compressionParams |-> getCompressionParameters(level)]
    /\ UNCHANGED << input, level, fileContent, callVars, dst, chunkVars,
                    result, stopAt, histVars >>

NextL == CompressAtLevel

SpecL == InitL /\ [][NextL]_vars

(***************************************************************************)
(* The numeric codec on its own: encodeLength of a length, then            *)
(* decodeLength of the bytes written followed by more bytes of the chunk.  *)
(***************************************************************************)
SuffixBytes == { ESCAPE_BYTE, ESCAPE_BYTE + LENGTH_BASE, 97 }

InitN ==
    /\ pc = "codec" /\ fault = "none"
    /\ input = << >> /\ level = COMPRESSION_LEVEL_DEFAULT
    /\ fileContent = << >> /\ outBuff = << >> /\ call = NoCall
    /\ \E n \in 0..MaxLength, suffix \in SeqsUpTo(SuffixBytes, MaxSuffix) :
          probe = [kind |-> "length", sameStringLength |-> n, suffix |-> suffix]
    /\ src = << >> /\ dst = << >>
    /\ DecoderIdle

\* encodeLength(sameStringLength, dst, 0), then decodeLength(dst suffix)
EncodeDecodeLength ==
    /\ pc = "codec"
    /\ probe' = [kind |-> "coded",
                 sameStringLength |-> probe.sameStringLength,
                 suffix |-> probe.suffix,
                 encoded |-> encodeLength(probe.sameStringLength),
                 decoded |-> decodeLength(encodeLength(probe.sameStringLength)
                                          \o probe.suffix)]
    /\ pc' = "coded"
    /\ UNCHANGED << fault, input, level, fileContent, outBuff, call, callVars,
                    dst, chunkVars, result, stopAt, histVars >>

NextN == EncodeDecodeLength

SpecN == InitN /\ [][NextN]_vars

(***************************************************************************)
(* The line compressor on its own: a key line is pushed into a fresh ring, *)
(* chooseReferenceLine picks the reference for the current line and        *)
(* compressLine writes it (pack.go:266-268).  The lines begin with a run   *)
(* of equal bytes that puts their first space just below or past the       *)
(* one-byte range of encodeLength and the reach of estimateSimilarity.     *)
(***************************************************************************)
PadLengths ==
    (0..MaxPadOver)
        \cup ((LENGTH_BASE - 1)..(LENGTH_BASE + MaxPadOver))
        \cup ((MAX_SIMILARITY - 1)..(MAX_SIMILARITY + MaxPadOver))

\* what follows the run: nothing, a space, or a space next to a non-ASCII byte
Middles == { << >>, << SPACE >>, << SPACE, 129 >>, << 129, SPACE >> }

LongLine(padByte, padLength, middle, end) ==
    [i \in 1..padLength |-> padByte] \o middle \o end

\* a line in the ring ends with its line feed
KeyLines ==
    { LongLine(b, n, m, << LF >>) : b \in { 97, 129 }, n \in PadLengths, m \in Middles }

\* the current line is any line of the chunk, the last one without a line
\* feed included
CurrLines ==
    { LongLine(b, n, m, e) : b \in { 97, 129 }, n \in PadLengths, m \in Middles,
                             e \in { << >>, << LF >> } } \ { << >> }

InitK ==
    /\ pc = "line" /\ fault = "none"
    /\ input = << >> /\ level \in { COMPRESSION_LEVEL_WORST }
    /\ fileContent = << >> /\ outBuff = << >> /\ call = NoCall
    /\ \E key \in KeyLines, currLine \in CurrLines :
          probe = [kind |-> "line", key |-> key, currLine |-> currLine]
    /\ src = << >> /\ dst = << >>
    /\ DecoderIdle

\* what compressLine writes for currLine with the reference lineRef
LineWritten(key, currLine, lineRef) ==
    [kind |-> "written", key |-> key, currLine |-> currLine,
     prefixLength |-> lineRef.prefixLength,
     similarityScore |-> lineRef.similarityScore,
     written |-> compressLine(lineRef, currLine)]

\* pack.go:255, 266-268: backref.add(key), chooseReferenceLine, compressLine
CompressOneLine ==
    /\ pc = "line"
    /\ probe' = LineWritten(probe.key, probe.currLine,
                    chooseReferenceLine(
                        add(NewBackref(getCompressionParameters(level).backreferenceCapacity),
                            probe.key),
                        probe.currLine,
                        getCompressionParameters(level).goodEnoughFactor))
    /\ pc' = "written"
    /\ UNCHANGED << fault, input, level, fileContent, outBuff, call, callVars,
                    dst, chunkVars, result, stopAt, histVars >>

NextK == CompressOneLine

SpecK == InitK /\ [][NextK]_vars

(***************************************************************************)
(* One Compress call, with the chunk size of the source, on an input of    *)
(* long lines: each line is a run of equal non-ASCII bytes, a space, one   *)
(* more byte and a line feed, and the lines alternate between two bytes,   *)
(* so that a line shares with the line before it no more than the space.   *)
(***************************************************************************)
PaddedLine(b, n) == LongLine(b, n, << SPACE, b >>, << LF >>)

RECURSIVE AlternatingLines(_, _, _, _)
AlternatingLines(a, b, n, k) ==
    IF k = 0 THEN << >>
    ELSE PaddedLine(a, n) \o AlternatingLines(b, a, n, k - 1)

\* the inputs, and the same inputs without the line feed of the last line
ExpansionInputs ==
    LET whole == { AlternatingLines(a, b, n, k) :
                       a \in { 129, 130 }, b \in { 129, 130 },
                       n \in PadLengths, k \in 1..MaxLines }
    IN  whole \cup { Slice(s, 0, Len(s) - 1) : s \in whole }

InitX ==
    /\ pc = "compress" /\ fault = "none"
    /\ input \in ExpansionInputs
    /\ level \in { COMPRESSION_LEVEL_WORST, COMPRESSION_LEVEL_BEST }
    /\ fileContent = input /\ outBuff = << >> /\ call = NoCall
    /\ probe = NoProbe
    /\ src = << >> /\ dst = << >>
    /\ DecoderIdle

\* Compress(dst, src, compressionLevel) with the MAX_CHUNK_SIZE of the
\* source and a dst of DecompressBound() bytes
CompressLongLines ==
    /\ pc = "compress"
    /\ LET r == CompressChunk(FULL_CHUNK_SIZE, FULL_CHUNK_SIZE + HEADER_SIZE,
                              fileContent, level)
       IN  /\ call' = CallRecord(FULL_CHUNK_SIZE + HEADER_SIZE, fileContent, r)
           /\ outBuff' = r.wrote
           /\ IF r.fault
              THEN fault' = "Compress" /\ pc' = "panic"
              ELSE fault' = fault /\ pc' = "compressed"
    /\ UNCHANGED << input, level, fileContent, probe, callVars, dst, chunkVars,
                    result, stopAt, histVars >>

NextX == CompressLongLines

SpecX == InitX /\ [][NextX]_vars

(***************************************************************************)
(* The caller's loop (main.go:179-190) run on one input at every level     *)
(* from 1 to 9, with the MAX_CHUNK_SIZE of the source: the sizes of the    *)
(* archives it writes.                                                     *)
(***************************************************************************)
RECURSIVE packedSize(_, _)
\* one iteration: r is what Compress returned for remaining
packedSizeAfter(remaining, compressionLevel, r) ==
    IF r.fault \/ r.bytesRead = 0 THEN r.bytesWritten
    ELSE r.bytesWritten
             + packedSize(Slice(remaining, r.bytesRead, Len(remaining)),
                          compressionLevel)

\* the bytes written by the Compress calls that consume remaining
packedSize(remaining, compressionLevel) ==
    IF Len(remaining) = 0 THEN 0
    ELSE packedSizeAfter(remaining, compressionLevel,
             CompressChunk(FULL_CHUNK_SIZE, FULL_CHUNK_SIZE + HEADER_SIZE,
                           remaining, compressionLevel))

InitM ==
    /\ pc = "pack" /\ fault = "none"
    /\ input \in Inputs /\ Len(input) > 0
    /\ level = COMPRESSION_LEVEL_DEFAULT
    /\ fileContent = input /\ outBuff = << >> /\ call = NoCall
    /\ probe = NoProbe
    /\ src = << >> /\ dst = << >>
    /\ DecoderIdle

PackAtEveryLevel ==
    /\ pc = "pack"
    /\ probe' = [kind |-> "sizes",
                 sizes |-> [l \in COMPRESSION_LEVEL_WORST..COMPRESSION_LEVEL_BEST |->
                               packedSize(input, l)]]
    /\ pc' = "packed"
    /\ UNCHANGED << fault, input, level, fileContent, outBuff, call, callVars,
                    dst, chunkVars, result, stopAt, histVars >>

NextM == PackAtEveryLevel

SpecM == InitM /\ [][NextM]_vars

(***************************************************************************)
(* The ring on its own: a fresh ring of one of the capacities the presets  *)
(* and decompressChunk use, and a run of add calls that goes past the      *)
(* capacity.  The n-th line pushed is the byte 0x80 + n and a line feed, so *)
(* that no two lines the ring can hold at a time are equal.                *)
(***************************************************************************)
RingCapacities ==
    { compressionLevelPresets[l].backreferenceCapacity : l \in 0..COMPRESSION_LEVEL_BEST }
        \cup { MAX_BACKREFERENCE_CAPACITY }

RingLine(n) == << ESCAPE_BYTE + (n % ESCAPE_BYTE), LF >>

\* the locals of Decompress and decompressChunk before any call, around a
\* ring
DecoderIdleWith(ring) ==
    /\ srcOff = 0 /\ dstOff = 0
    /\ bytesRead = 0 /\ bytesWritten = 0 /\ chunkResult = 0
    /\ chunkSize = 0 /\ rawSize = 0 /\ iter = "first"
    /\ compressed = << >> /\ chunkWritten = 0 /\ idxLineBegin = 0
    /\ backref = ring
    /\ keyLine = << >> /\ idxKeyLine = 0 /\ idxCompressed = 0
    /\ lastDecompressedLine = << >> /\ chunkRet = 0 /\ lineMark = 0
    /\ result = NoResult /\ stopAt = "none"
    /\ chunkFailed = FALSE /\ goodRead = 0 /\ goodWritten = 0

InitR ==
    /\ pc = "ring" /\ fault = "none"
    /\ input = << >> /\ level = COMPRESSION_LEVEL_DEFAULT
    /\ fileContent = << >> /\ outBuff = << >> /\ call = NoCall
    /\ probe = [kind |-> "ring", pushed |-> << >>]
    /\ src = << >> /\ dst = << >>
    /\ \E capacity \in RingCapacities : DecoderIdleWith(NewBackref(capacity))

\* backref.add(line)
AddLine ==
    /\ pc = "ring"
    /\ Len(probe.pushed) < backref.capacity + MaxOver
    /\ backref' = add(backref, RingLine(Len(probe.pushed) + 1))
    /\ probe' = [kind |-> "ring",
                 pushed |-> Append(probe.pushed, RingLine(Len(probe.pushed) + 1))]
    /\ UNCHANGED << pc, fault, input, level, fileContent, outBuff, call, callVars,
                    dst, compressed, chunkWritten, idxLineBegin, keyLine, idxKeyLine,
                    idxCompressed, lastDecompressedLine, chunkRet, lineMark,
                    result, stopAt, histVars >>

NextR == AddLine

SpecR == InitR /\ [][NextR]_vars

(***************************************************************************)
(* The lines of one chunk after the first, as Compress takes them          *)
(* (pack.go:254-274): the first line is in a fresh ring; for each line     *)
(* that follows chooseReferenceLine walks the ring, one candidate at a     *)
(* step, compressLine writes the line, and the line goes into the ring.    *)
(* probe holds the lines pushed so far, the current line, the position of  *)
(* the walk (linesBefore, the best reference so far, the candidates        *)
(* examined) and, once the walk has ended, what chooseReferenceLine        *)
(* returned and what compressLine wrote.                                   *)
(***************************************************************************)
\* "x a b", "y a b", "x a c" and "qqqqq", each with its line feed
SelectLines ==
    { << 120, SPACE, 97, SPACE, 98, LF >>,
      << 121, SPACE, 97, SPACE, 98, LF >>,
      << 120, SPACE, 97, SPACE, 99, LF >>,
      << 113, 113, 113, 113, 113, LF >> }

\* rings of 2, 4 and 64 lines, the last with the factor 1.00
SelectLevels == { COMPRESSION_LEVEL_WORST, 2, COMPRESSION_LEVEL_BEST }

\* pack.go:250-255: the parameters, the fresh ring, the first line
FirstLinePushed(firstLine) ==
    /\ pc = "nextline" /\ fault = "none"
    /\ input = << >>
    /\ fileContent = << >> /\ outBuff = << >> /\ call = NoCall
    /\ probe = [kind |-> "lines", pushed |-> << firstLine >>]
    /\ src = << >> /\ dst = << >>
    /\ DecoderIdleWith(
           add(NewBackref(getCompressionParameters(level).backreferenceCapacity),
               firstLine))

InitS ==
    /\ level \in SelectLevels
    /\ \E firstLine \in SelectLines : FirstLinePushed(firstLine)

\* pack.go:260, 94-99: the next line of the chunk, and the start of the walk
NextCurrLineFrom(lines) ==
    /\ pc = "nextline"
    /\ \E currLine \in lines :
          probe' = [kind |-> "select", pushed |-> probe.pushed,
                    currLine |-> currLine, linesBefore |-> 1,
                    lineRef |-> NoLineRef, examined |-> << >>]
    /\ pc' = "select"
    /\ UNCHANGED << fault, input, level, fileContent, outBuff, call, callVars,
                    dst, chunkVars, result, stopAt, histVars >>

NextCurrLine ==
    /\ Len(probe.pushed) < MaxRingLines
    /\ NextCurrLineFrom(SelectLines)

\* the walk has ended: what chooseReferenceLine returns and what compressLine
\* writes with it (pack.go:266-268)
Selected(best, examined) ==
    [kind |-> "selected", pushed |-> probe.pushed, currLine |-> probe.currLine,
     lineRef |-> best, examined |-> examined,
     returned |-> chooseReferenceLine(backref, probe.currLine,
                      getCompressionParameters(level).goodEnoughFactor),
     written |-> compressLine(
                     chooseReferenceLine(backref, probe.currLine,
                         getCompressionParameters(level).goodEnoughFactor),
                     probe.currLine)]

\* pack.go:99-122: one iteration of the loop of chooseReferenceLine
ExamineAt(i, est) ==
    IF searchEnds(backref, probe.currLine,
                  getCompressionParameters(level).goodEnoughFactor,
                  probe.lineRef, i, est)
    THEN /\ probe' = Selected(betterOf(backref, probe.linesBefore, probe.lineRef, i, est),
                              Append(probe.examined, probe.linesBefore))
         /\ pc' = "selected"
    ELSE /\ probe' = [probe EXCEPT
                         !.linesBefore = @ + 1,
                         !.lineRef = betterOf(backref, probe.linesBefore,
                                              probe.lineRef, i, est),
                         !.examined = Append(@, probe.linesBefore)]
         /\ pc' = "select"

Examine ==
    /\ pc = "select"
    /\ ExamineAt(slotOf(backref, probe.linesBefore),
                 estimateSimilarity(backref.lines[slotOf(backref, probe.linesBefore)],
                                    probe.currLine))
    /\ UNCHANGED << fault, input, level, fileContent, outBuff, call, callVars,
                    dst, chunkVars, result, stopAt, histVars >>

\* pack.go:274: backref.add(currLine)
PushCurrLine ==
    /\ pc = "selected"
    /\ backref' = add(backref, probe.currLine)
    /\ probe' = [kind |-> "lines", pushed |-> Append(probe.pushed, probe.currLine)]
    /\ pc' = "nextline"
    /\ UNCHANGED << fault, input, level, fileContent, outBuff, call, callVars,
                    dst, compressed, chunkWritten, idxLineBegin, keyLine, idxKeyLine,
                    idxCompressed, lastDecompressedLine, chunkRet, lineMark,
                    result, stopAt, histVars >>

NextS == NextCurrLine \/ Examine \/ PushCurrLine

SpecS == InitS /\ [][NextS]_vars

(***************************************************************************)
(* The same steps on chunks long enough to fill every ring: the first line *)
(* is "x a b", the lines that follow are pairwise distinct lines that      *)
(* share nothing with it or with one another, and around the moment the    *)
(* ring becomes full a line may be "x a b" again, so that the best         *)
(* reference lies as far back as the ring reaches.                         *)
(***************************************************************************)
DeepKey == << 120, SPACE, 97, SPACE, 98, LF >>

\* the lines the n-th line of the chunk is drawn from, in a ring of the
\* given capacity
DeepLines(n, capacity) ==
    IF n >= capacity - MaxOver THEN { RingLine(n), DeepKey } ELSE { RingLine(n) }

InitB ==
    /\ level \in COMPRESSION_LEVEL_WORST..COMPRESSION_LEVEL_BEST
    /\ FirstLinePushed(DeepKey)

NextDeepLine ==
    /\ Len(probe.pushed) < backref.capacity + MaxOver
    /\ NextCurrLineFrom(DeepLines(Len(probe.pushed) + 1, backref.capacity))

NextB == NextDeepLine \/ Examine \/ PushCurrLine

SpecB == InitB /\ [][NextB]_vars

(***************************************************************************)
(* Two inputs packed by the caller's loop into the archives A and B, and   *)
(* three Decompress calls, each with a dst of the size of what it unpacks: *)
(* of A, of B, and of A followed by B.  probe holds the two inputs, the    *)
(* two archives and what the calls that have returned gave.                *)
(***************************************************************************)
RECURSIVE archiveOf(_, _)
\* main.go:186-189: the chunk goes to the output, the loop goes on with the
\* rest of the input
archiveWith(wrote, rest) ==
    [fault |-> rest.fault, bytes |-> wrote \o rest.bytes]

\* one iteration: r is what Compress returned for remaining
archiveAfter(remaining, compressionLevel, r) ==
    IF r.fault \/ r.bytesRead = 0
    THEN [fault |-> TRUE, bytes |-> << >>]
    ELSE archiveWith(r.wrote,
             archiveOf(Slice(remaining, r.bytesRead, Len(remaining)),
                       compressionLevel))

\* main.go:179-190: the output of the Compress calls that consume remaining
archiveOf(remaining, compressionLevel) ==
    IF Len(remaining) = 0 THEN [fault |-> FALSE, bytes |-> << >>]
    ELSE archiveAfter(remaining, compressionLevel,
                      Compress(DecompressBound, remaining, compressionLevel))

\* short inputs of letters and line feeds, and one input of several lines
\* that is a byte longer than a chunk
HalfInputs ==
    (SeqsUpTo({ LF, 97 }, MaxHalf) \ { << >> })
        \cup { [i \in 1..(MAX_CHUNK_SIZE + 1) |-> IF i % 3 = 0 THEN LF ELSE 97] }

InitJ ==
    /\ pc = "pack" /\ fault = "none"
    /\ level \in { COMPRESSION_LEVEL_WORST, COMPRESSION_LEVEL_BEST }
    /\ \E a \in HalfInputs, b \in HalfInputs :
          /\ input = a \o b
          /\ probe = [kind |-> "pair", first |-> a, second |-> b]
    /\ fileContent = input /\ outBuff = << >> /\ call = NoCall
    /\ src = << >> /\ dst = << >>
    /\ DecoderIdle

\* the two archives are written and Decompress is called on the first
PackPairInto(a, b) ==
    IF a.fault \/ b.fault
    THEN /\ fault' = "Compress" /\ pc' = "panic"
         /\ UNCHANGED << outBuff, probe, src, dst >>
    ELSE /\ outBuff' = a.bytes \o b.bytes
         /\ probe' = [kind |-> "first", first |-> probe.first, second |-> probe.second,
                      packedFirst |-> a.bytes, packedSecond |-> b.bytes]
         /\ StartUnpack(a.bytes, Len(probe.first))
         /\ UNCHANGED fault

PackPair ==
    /\ pc = "pack" /\ probe.kind = "pair"
    /\ PackPairInto(archiveOf(probe.first, level), archiveOf(probe.second, level))
    /\ UNCHANGED << input, level, fileContent, call, srcOff, dstOff, bytesRead,
                    bytesWritten, chunkResult, chunkSize, rawSize, iter,
                    chunkVars, result, stopAt, histVars >>

\* pack.go:465: a new call of Decompress has its own locals
NewCall ==
    /\ srcOff' = 0 /\ dstOff' = 0
    /\ bytesRead' = 0 /\ bytesWritten' = 0 /\ chunkResult' = 0
    /\ chunkSize' = 0 /\ rawSize' = 0 /\ iter' = "first"
    /\ compressed' = << >> /\ chunkWritten' = 0 /\ idxLineBegin' = 0
    /\ backref' = NewBackref(MAX_BACKREFERENCE_CAPACITY)
    /\ keyLine' = << >> /\ idxKeyLine' = 0 /\ idxCompressed' = 0
    /\ lastDecompressedLine' = << >> /\ chunkRet' = 0 /\ lineMark' = 0
    /\ result' = NoResult /\ stopAt' = "none"
    /\ chunkFailed' = FALSE /\ goodRead' = 0 /\ goodWritten' = 0

\* the call on A has returned: Decompress is called on B
UnpackSecond ==
    /\ pc = "done" /\ probe.kind = "first"
    /\ probe' = [kind |-> "second", first |-> probe.first, second |-> probe.second,
                 packedFirst |-> probe.packedFirst,
                 packedSecond |-> probe.packedSecond,
                 resultFirst |-> result, dstFirst |-> dst]
    /\ NewCall
    /\ StartUnpack(probe.packedSecond, Len(probe.second))
    /\ UNCHANGED << fault, input, level, fileContent, outBuff, call >>

\* the call on B has returned: Decompress is called on A followed by B
UnpackJoined ==
    /\ pc = "done" /\ probe.kind = "second"
    /\ probe' = [kind |-> "joined", first |-> probe.first, second |-> probe.second,
                 packedFirst |-> probe.packedFirst,
                 packedSecond |-> probe.packedSecond,
                 resultFirst |-> probe.resultFirst, dstFirst |-> probe.dstFirst,
                 resultSecond |-> result, dstSecond |-> dst]
    /\ NewCall
    /\ StartUnpack(probe.packedFirst \o probe.packedSecond,
                   Len(probe.first) + Len(probe.second))
    /\ UNCHANGED << fault, input, level, fileContent, outBuff, call >>

NextJ == PackPair \/ DecompressStep \/ UnpackSecond \/ UnpackJoined

SpecJ == InitJ /\ [][NextJ]_vars

(***************************************************************************)
(* Properties.                                                             *)
(***************************************************************************)
Sentinels == { NOT_ENOUGH_INPUT, NOT_ENOUGH_OUTPUT_SPACE, CORRUPT_INPUT }

Returned == pc = "done"

Ended == pc \in { "done", "panic" }

\* C1: round-trip identity.  For every non-empty input and every level, the
\* Compress calls consume the input, and Decompress of the concatenated
\* output reads all of it and yields exactly the input.
RoundTripIdentity ==
    (Len(input) > 0 /\ Ended) =>
        /\ Returned
        /\ src = outBuff
        /\ result = << Len(src), Len(input) >>
        /\ dst = input

\* C2: Compress called with a dst of DecompressBound() bytes never indexes
\* dst or src outside their bounds.
CompressInBounds ==
    (call.made /\ call.dstLen = DecompressBound) => fault # "Compress"

\* C3: Decompress never reads or writes outside the slices it was given,
\* whatever the headers and the payloads.
DecompressInBounds == fault # "Decompress"

\* C4: Decompress terminates on every input.  Each iteration of the token
\* loop advances idxCompressed, each iteration of the line loop ends further
\* in the input than it began, each iteration of the chunk loop moves to a
\* later chunk, and every call ends.
TokenConsumes ==
    (pc = "token" /\ idxCompressed < Len(compressed) /\ pc' \in { "token", "lineend" })
        => idxCompressed' > idxCompressed

LineConsumes ==
    (pc = "lineend" /\ pc' = "line") => Consumed' > lineMark

ChunkConsumes ==
    (pc = "chunkret" /\ pc' = "loop") => srcOff' >= srcOff + 1

CorruptionAllOrNothing ==
    (Returned /\ chunkFailed) => result = << CORRUPT_INPUT, 0 >>

\* C6: result domain.  bytesRead is a sentinel or within 0..len(src),
\* bytesWritten is within 0..len(dst), and is 0 with a sentinel.
ResultDomain ==
    Returned =>
        /\ result[1] \in Sentinels \cup 0..Len(src)
        /\ result[2] \in 0..Len(dst)
        /\ result[1] \in Sentinels => result[2] = 0

\* C7: incomplete input.  A chunk cut short makes the call return
\* (NOT_ENOUGH_INPUT, 0) when it is the first chunk, and the counts of the
\* chunks that were decoded when it is a later one.
IncompleteInput ==
    (Returned /\ stopAt = "short_input") =>
        IF iter = "first"
        THEN result = << NOT_ENOUGH_INPUT, 0 >>
        ELSE result = << goodRead, goodWritten >>

\* C8: insufficient output space.  A chunk that does not fit the rest of dst
\* makes the call return (NOT_ENOUGH_OUTPUT_SPACE, 0) when it is the first
\* chunk, and the counts of the chunks that were decoded when it is a later
\* one.
InsufficientOutputSpace ==
    (Returned /\ stopAt = "short_output") =>
        IF iter = "first"
        THEN result = << NOT_ENOUGH_OUTPUT_SPACE, 0 >>
        ELSE result = << goodRead, goodWritten >>

\* C9: buffer-size signals lose no state.  When Decompress returns
\* NOT_ENOUGH_INPUT or NOT_ENOUGH_OUTPUT_SPACE no byte of dst has been
\* modified.
BufferSignalsKeepDst ==
    (Returned /\ result[1] \in { NOT_ENOUGH_INPUT, NOT_ENOUGH_OUTPUT_SPACE })
        => dst = Zeros(Len(dst))

\* a call on a dst that is too small for the first chunk
ShortOutputSignalled ==
    /\ Returned /\ result = << NOT_ENOUGH_OUTPUT_SPACE, 0 >>
    /\ Len(dst) > 0 /\ Len(src) >= HEADER_SIZE + chunkSize

\* C10: empty input to Compress.  A Compress call on an empty src that
\* returns, returns (0, 0) and has written no byte into dst.
CompressEmptyWritesNothing ==
    (call.made /\ call.srcLen = 0 /\ fault = "none") =>
        /\ call.bytesRead = 0
        /\ call.bytesWritten = 0
        /\ call.wrote = << >>

\* C11 as stated: Decompress of a src shorter than the header returns the
\* counts (0, 0) and no sentinel.
ShortSrcDecompressesToEmpty ==
    (Returned /\ Len(src) < HEADER_SIZE) => result = << 0, 0 >>

\* C11: Decompress of a src shorter than the 4-byte header (a zero-length
\* src included) enters no chunk, writes nothing into dst and returns
\* (NOT_ENOUGH_INPUT, 0).
ShortSrcNotEnoughInput ==
    (Returned /\ Len(src) < HEADER_SIZE) =>
        /\ result = << NOT_ENOUGH_INPUT, 0 >>
        /\ dst = Zeros(Len(dst))
        /\ iter = "first" /\ srcOff = 0 /\ goodRead = 0 /\ ~chunkFailed

\* a call on a zero-length src and a dst that could have been written
EmptySrcReturned ==
    Returned /\ Len(src) = 0 /\ Len(dst) > 0 /\ stopAt = "short_header"

\* C12: chunk size ceiling.  A Compress call that returns has read at most
\* MAX_CHUNK_SIZE bytes and written at most DecompressBound() bytes, and for
\* a non-empty src the two sizes in the header are within 1..MAX_CHUNK_SIZE
\* and equal bytesWritten - 4 and bytesRead.
ChunkSizeCeiling ==
    (call.made /\ fault = "none") =>
        /\ call.bytesRead <= MAX_CHUNK_SIZE
        /\ call.bytesWritten <= DecompressBound
        /\ call.srcLen > 0 =>
              /\ Len(call.wrote) >= HEADER_SIZE
              /\ readHeader(call.wrote).compressedSize \in 1..MAX_CHUNK_SIZE
              /\ readHeader(call.wrote).rawSize \in 1..MAX_CHUNK_SIZE
              /\ readHeader(call.wrote).compressedSize = call.bytesWritten - HEADER_SIZE
              /\ readHeader(call.wrote).rawSize = call.bytesRead

\* the writable part of dst of the call made cannot hold the quoted first line
FirstLineTooLong ==
    /\ call.made /\ call.srcLen > 0
    /\ Len(quote(nextLine(limitSlice(input, MAX_CHUNK_SIZE)).line)) >
           min2(call.dstLen - HEADER_SIZE, MAX_CHUNK_SIZE)

\* C17: destination too small for the first line.  When src is non-empty and
\* the part of dst behind the header cannot hold the quoted first line,
\* Compress does not fault, reads nothing and writes nothing: no header, no
\* payload, and it returns (0, 0).
NoChunkWhenFirstLineTooLong ==
    FirstLineTooLong =>
        /\ fault = "none"
        /\ call.bytesRead = 0 /\ call.bytesWritten = 0
        /\ call.wrote = << >>

\* C15: progress of the compress loop.  A Compress call on a non-empty src
\* with a dst of at least DecompressBound() bytes returns, and it has read at
\* least one byte and at most len(src) bytes, so the loop that drops the
\* bytes read and calls again comes to the end of the input.
CompressLoopProgress ==
    (call.made /\ call.srcLen > 0 /\ call.dstLen >= DecompressBound) =>
        /\ pc # "panic"
        /\ 1 <= call.bytesRead /\ call.bytesRead <= call.srcLen
        /\ Len(fileContent) < call.srcLen

\* C16: one Decompress call consumes a whole valid archive.  When src is the
\* concatenation of the outputs of the Compress calls over an input and dst
\* is at least as long as the input, Decompress returns bytesRead = len(src)
\* and bytesWritten = len(input), and dst begins with the input: every chunk
\* was decoded, in order, by the one call.
WholeArchiveInOneCall ==
    (Returned /\ Len(input) > 0) =>
        /\ src = outBuff /\ Len(fileContent) = 0
        /\ result = << Len(src), Len(input) >>
        /\ Slice(dst, 0, Len(input)) = input
        /\ fault = "none"

\* an archive of several chunks was unpacked by one call into a dst longer
\* than the input
SeveralChunksInOneCall ==
    /\ Returned /\ Len(input) > 0
    /\ Len(src) > HEADER_SIZE + readHeader(src).compressedSize
    /\ Len(dst) > Len(input)
    /\ result[1] = Len(src)

\* the level of the claim's table that a level stands for: the level
\* clamped into 1..9, and 4 for level 0
ClampedLevel(l) ==
    IF l = 0 THEN 4 ELSE IF l < 1 THEN 1 ELSE IF l > 9 THEN 9 ELSE l

\* C18: level selection.  For every integer level Compress works with the
\* parameters of the level clamped into 1..9 (above 9: row 9; negative: ring
\* capacity 2 and factor 0.80), level 0 stands for level 4, and rows 1..9
\* give ring capacity 2, 4, 8, 16, 32, 64, 64, 64, 64 with factor 0.80 for
\* levels 1..6 and 0.90, 0.95, 1.00 for levels 7, 8, 9; the call writes what
\* a call at the clamped level writes.
LevelSelection ==
    probe.kind = "parameters" =>
        /\ probe.compressionParams.backreferenceCapacity =
               << 2, 4, 8, 16, 32, 64, 64, 64, 64 >>[ClampedLevel(level)]
        /\ probe.compressionParams.goodEnoughFactor =
               << 80, 80, 80, 80, 80, 80, 90, 95, 100 >>[ClampedLevel(level)]
        /\ call.wrote = Compress(call.dstLen, input, ClampedLevel(level)).wrote

\* Compress was called at level 0 and worked with the default row
LevelZeroUsesDefault ==
    /\ probe.kind = "parameters" /\ call.made /\ level = 0
    /\ probe.compressionParams.backreferenceCapacity = 16

\* C19: numeric codec round trip.  For n >= 1 encodeLength writes n div 127
\* bytes 0xFF and then the byte 0x80 + (n mod 127), and decodeLength of these
\* bytes followed by any suffix returns (n, n div 127 + 1): it reads none of
\* the suffix, also when n is a multiple of 127 and the closing byte is 0x80.
\* encodeLength(0) writes nothing.
LengthRoundTrip ==
    probe.kind = "coded" =>
        IF probe.sameStringLength = 0
        THEN probe.encoded = << >>
        ELSE /\ probe.encoded =
                    [i \in 1..(probe.sameStringLength \div 127) |-> 255]
                    \o << 128 + (probe.sameStringLength % 127) >>
             /\ probe.decoded =
                    [sameStringLength |-> probe.sameStringLength,
                     bytesRead |-> (probe.sameStringLength \div 127) + 1]

\* a multiple of 127 was encoded and decoded in front of a suffix that begins
\* with 0xFF
MultipleOfBaseRoundTrip ==
    /\ probe.kind = "coded" /\ probe.sameStringLength = 254
    /\ Len(probe.suffix) > 0 /\ probe.suffix[1] = 255
    /\ probe.decoded.bytesRead = 3

\* C20: sufficiency of the space guard.  For every current line and every
\* reference chooseReferenceLine returns for it, compressLine writes at most
\* 2 * len(currLine) + 2 bytes, so a dst that passed the guard
\* len(dst) >= 2 * len(currLine) + 2 is never overrun.
SpaceGuardSuffices ==
    probe.kind = "written" =>
        Len(probe.written) <= 2 * Len(probe.currLine) + 2

\* a line was written with a two-byte initial offset into the key line and
\* took all of the 2 * len(currLine) + 2 bytes
SpaceGuardAttained ==
    /\ probe.kind = "written"
    /\ probe.prefixLength <= 0 - LENGTH_BASE
    /\ Len(probe.written) = 2 * Len(probe.currLine) + 2

\* the number of lines among the bytes the call has read, and whether the
\* last of them ends without a line feed
LinesRead ==
    Cardinality({ i \in 1..call.bytesRead : input[i] = LF })
        + (IF call.bytesRead > 0 /\ input[call.bytesRead] # LF THEN 1 ELSE 0)

LastLineOpen ==
    LinesRead > 1 /\ input[call.bytesRead] # LF

\* C13 as stated: one Compress call writes at most 2 * bytesRead + 6 bytes,
\* whatever the number of lines in the chunk.
ExpansionWithinSix ==
    (call.made /\ fault = "none") =>
        call.bytesWritten <= 2 * call.bytesRead + 6

\* C13: expansion bound.  One Compress call writes at most
\* 2 * bytesRead + 4 bytes plus one byte for every line after the first,
\* plus one more when the last of those lines has no line feed.
ExpansionWithinLines ==
    (call.made /\ fault = "none" /\ call.bytesRead > 0) =>
        call.bytesWritten <=
            2 * call.bytesRead + HEADER_SIZE + (LinesRead - 1)
                + (IF LastLineOpen THEN 1 ELSE 0)

\* a chunk of six lines or more, each after the first written with a
\* two-byte offset into its key line, takes more than 2 * bytesRead + 6 bytes
ManyLinesExpand ==
    /\ call.made /\ fault = "none"
    /\ LinesRead >= 6
    /\ call.bytesWritten > 2 * call.bytesRead + 6

\* C14: monotone compression level.  For every input and every pair of
\* levels L1 < L2 in 1..9, the archive written at level L2 is not larger
\* than the one written at level L1.
MonotoneLevel ==
    probe.kind = "sizes" =>
        \A l1, l2 \in COMPRESSION_LEVEL_WORST..COMPRESSION_LEVEL_BEST :
            l1 < l2 => probe.sizes[l2] <= probe.sizes[l1]

\* the i-th most recently pushed line
Recent(i) == probe.pushed[Len(probe.pushed) - i + 1]

\* the lines getLineAt can be asked for: the min(n, K) most recent ones
Held == 1..min2(Len(probe.pushed), backref.capacity)

\* a push into a full ring stores the line in the slot of the oldest line
\* held and leaves every other slot alone
OverwritesOldest ==
    (pc = "ring" /\ Len(probe.pushed) >= backref.capacity) =>
        /\ getLineAt(backref, backref.capacity) = Recent(backref.capacity)
        /\ \A slot \in 0..(MAX_BACKREFERENCE_CAPACITY - 1) :
               IF slot = slotOf(backref, backref.capacity)
               THEN backref'.lines[slot] = Recent(1)'
               ELSE backref'.lines[slot] = backref.lines[slot]

\* C21: ring content.  After n >= 1 add operations on a ring of capacity K,
\* getLineAt(i) is the i-th most recently added line for every i in
\* 1..min(n, K); a push beyond capacity overwrites only the oldest entry;
\* writeIdx and oldestLineIdx stay in 0..K-1.
RingContent ==
    /\ [](probe.kind = "ring" =>
            /\ \A i \in Held : getLineAt(backref, i) = Recent(i)
            /\ backref.writeIdx \in 0..(backref.capacity - 1)
            /\ backref.oldestLineIdx \in 0..(backref.capacity - 1))
    /\ [][OverwritesOldest]_vars

\* a ring of capacity 2 was pushed into beyond its capacity and still hands
\* out its two most recent lines
RingWrapped ==
    /\ probe.kind = "ring" /\ backref.capacity = 2
    /\ Len(probe.pushed) > backref.capacity + 1
    /\ getLineAt(backref, 2) = Recent(2)
    /\ getLineAt(backref, 1) = Recent(1)

\* the similarity score of the current line with the i-th most recent line
Score(i) == estimateSimilarity(Recent(i), probe.currLine).similarityScore

\* the score is at least T = goodEnoughFactor * min(len(curr), 140); the
\* factor is held in hundredths
ReachesThreshold(i) ==
    100 * Score(i) >=
        getCompressionParameters(level).goodEnoughFactor
            * min2(Len(probe.currLine), MAX_SIMILARITY)

\* 1, 2, ..., n in this order
UpTo(n) == [i \in 1..n |-> i]

\* the candidates the walk has examined
Examined == { probe.examined[k] : k \in 1..Len(probe.examined) }

\* C22 as stated: the selector searches the whole ring.  When no line the
\* ring holds reaches the good-enough threshold, chooseReferenceLine
\* examines the min(n, K) most recently pushed lines, the K-th most recent
\* included, and the score of the line it returns is maximal among all of
\* them.
SearchesWholeRing ==
    (probe.kind = "selected" /\ \A i \in Held : ~ReachesThreshold(i)) =>
        /\ probe.examined = UpTo(min2(Len(probe.pushed), backref.capacity))
        /\ \A i \in Held : probe.returned.similarityScore >= Score(i)

\* the lines within reach of the walk: the min(n, K - 1) most recent ones
WithinReach == 1..min2(Len(probe.pushed), backref.capacity - 1)

\* C22: the selector searches the ring but for its oldest slot.  When none
\* of the min(n, K - 1) most recently pushed lines reaches the good-enough
\* threshold, chooseReferenceLine examines every one of them, from the
\* newest to the oldest, and no other line, and the score of the line it
\* returns is maximal among them.
SearchesAllButOldest ==
    (probe.kind = "selected" /\ \A i \in WithinReach : ~ReachesThreshold(i)) =>
        /\ probe.examined = UpTo(min2(Len(probe.pushed), backref.capacity - 1))
        /\ \A i \in WithinReach : probe.returned.similarityScore >= Score(i)
        /\ \E i \in WithinReach : probe.returned.similarityScore = Score(i)

\* K or more lines were pushed, no line reached the threshold, and the K-th
\* most recent line, which scores more than the line returned, was not
\* examined
KthMostRecentSkipped ==
    /\ probe.kind = "selected"
    /\ Len(probe.pushed) >= backref.capacity
    /\ \A i \in Held : ~ReachesThreshold(i)
    /\ backref.capacity \notin Examined
    /\ Score(backref.capacity) > probe.returned.similarityScore
    /\ Len(probe.examined) > 1

\* the best reference so far is the most recent of the examined lines with
\* the greatest score, or the default when no examined line scores above 0
MostRecentBest(best) ==
    IF \A i \in Examined : Score(i) = 0
    THEN best = [line |-> << >>, linesBefore |-> 1, prefixLength |-> 0,
                 similarityScore |-> 0]
    ELSE /\ best.linesBefore \in Examined
         /\ best.line = Recent(best.linesBefore)
         /\ best.similarityScore = Score(best.linesBefore)
         /\ \A j \in Examined :
               /\ Score(j) <= best.similarityScore
               /\ Score(j) = best.similarityScore => best.linesBefore <= j

\* a step of the walk replaces the best so far only by a line whose score
\* is strictly greater
ReplacedByGreater ==
    (pc = "select" /\ probe'.lineRef # probe.lineRef) =>
        /\ Score(probe.linesBefore) > probe.lineRef.similarityScore
        /\ probe'.lineRef.linesBefore = probe.linesBefore

\* C23: tie-break of the selector.  Among the lines chooseReferenceLine
\* examines a line replaces the current best only if its score is strictly
\* greater, so of several examined lines with the same best score the most
\* recent one is returned; when no examined line has a positive score the
\* result is linesBefore = 1 with score 0, prefix length 0 and no key line.
TieBreak ==
    /\ [](probe.kind \in { "select", "selected" } => MostRecentBest(probe.lineRef))
    /\ [](probe.kind = "selected" => MostRecentBest(probe.returned))
    /\ [][ReplacedByGreater]_vars

\* two examined lines share the best score and the more recent one was
\* returned
TieWonByNewest ==
    /\ probe.kind = "selected" /\ probe.returned.similarityScore > 0
    /\ \E j \in Examined :
          /\ j > probe.returned.linesBefore
          /\ Score(j) = probe.returned.similarityScore

\* the lines the walk can come to: from the newest back to the slot
\* oldestLineIdx
Candidates ==
    1..((backref.writeIdx - backref.oldestLineIdx + backref.capacity)
            % backref.capacity)

\* the candidate's score is strictly greater than the score of every more
\* recent candidate and reaches the threshold
Stops(i) ==
    /\ ReachesThreshold(i)
    /\ \A j \in 1..(i - 1) : Score(j) < Score(i)

\* C24: good-enough early termination.  With
\* T = goodEnoughFactor * min(len(curr), 140), chooseReferenceLine walks the
\* candidates from newest to oldest and stops at the first one whose score
\* is strictly greater than every more recent candidate's score and is >= T:
\* that candidate is returned and no older line is examined.  A candidate
\* that does not stop the walk this way, one that only equals the best so
\* far included, lets it go on to the oldest candidate.
EarlyTermination ==
    probe.kind = "selected" =>
        IF \E i \in Candidates : Stops(i)
        THEN /\ Stops(Len(probe.examined))
             /\ \A i \in 1..(Len(probe.examined) - 1) : ~Stops(i)
             /\ probe.examined = UpTo(Len(probe.examined))
             /\ probe.returned.linesBefore = Len(probe.examined)
             /\ probe.returned.line = Recent(Len(probe.examined))
        ELSE probe.examined = UpTo(Cardinality(Candidates))

\* the walk stopped at a good-enough line and left an older line with a
\* greater score unexamined
StoppedBeforeBetter ==
    /\ probe.kind = "selected"
    /\ Len(probe.examined) < Cardinality(Candidates)
    /\ \E j \in Candidates :
          j > Len(probe.examined) /\ Score(j) > probe.returned.similarityScore

\* C25: range of encoded back-references.  At every level the line-reference
\* header byte that compressLine writes for a line has the high bit set and
\* carries in its low 6 bits the linesBefore of the reference chosen, with
\* 1 <= linesBefore <= 63, linesBefore <= K and linesBefore no more than the
\* number of lines already encoded in the chunk; the 0x40 bit is set exactly
\* when the reference has no shared prefix, never by overflow of
\* 0x80 + linesBefore; the decoder's ring resolves the reference to the key
\* line the encoder used.
BackReferenceRange ==
    probe.kind = "selected" =>
        /\ probe.written[1] >= ESCAPE_BYTE
        /\ probe.written[1] % NO_SHARED_PREFIX_FLAG = probe.returned.linesBefore
        /\ probe.returned.linesBefore >= 1
        /\ probe.returned.linesBefore <= 63
        /\ probe.returned.linesBefore <= backref.capacity
        /\ probe.returned.linesBefore <= Len(probe.pushed)
        /\ ((probe.written[1] \div NO_SHARED_PREFIX_FLAG) % 2 = 1)
               <=> (probe.returned.prefixLength < 0)
        /\ probe.returned.similarityScore > 0 =>
               probe.returned.line = Recent(probe.returned.linesBefore)

\* a line was written with a reference 63 lines back at a level whose ring
\* has 64 slots
SixtyThreeBack ==
    /\ probe.kind = "selected" /\ backref.capacity = MAX_BACKREFERENCE_CAPACITY
    /\ Len(probe.pushed) >= 63
    /\ probe.written[1] = ESCAPE_BYTE + 63

\* the first chunk of the call is whole and fits dst: Decompress hands it to
\* decompressChunk
FirstChunkDecoded ==
    /\ Len(src) >= HEADER_SIZE
    /\ Len(src) - HEADER_SIZE >= readHeader(src).compressedSize
    /\ Len(dst) >= readHeader(src).rawSize

\* C26 as stated: when the first payload byte of the first chunk has the
\* high bit set (0x80..0xFF), Decompress returns CORRUPT_INPUT.
HighBitFirstIsCorrupt ==
    (Returned /\ FirstChunkDecoded /\ At(src, HEADER_SIZE) >= ESCAPE_BYTE) =>
        result = << CORRUPT_INPUT, 0 >>

\* C26: first payload byte check.  For every chunk whose first payload byte
\* is greater than 0x80 (0x81..0xFF, a line reference) decompressChunk
\* reports corruption, and Decompress returns (CORRUPT_INPUT, 0) with dst
\* untouched when that chunk is the first of the call.  The byte 0x80 is
\* the escape of a literal and is not rejected by this check.
LineRefFirstIsCorrupt ==
    /\ (pc = "chunkret" /\ At(src, srcOff) > ESCAPE_BYTE) => chunkRet = -1
    /\ (Ended /\ FirstChunkDecoded /\ At(src, HEADER_SIZE) > ESCAPE_BYTE) =>
           /\ Returned /\ result = << CORRUPT_INPUT, 0 >>
           /\ dst = Zeros(Len(dst))

\* a first chunk that starts with a line reference carrying the
\* no-shared-prefix flag was refused
FlaggedLineRefFirst ==
    /\ Returned /\ FirstChunkDecoded
    /\ At(src, HEADER_SIZE) = ESCAPE_BYTE + NO_SHARED_PREFIX_FLAG + 1
    /\ result = << CORRUPT_INPUT, 0 >>

\* the token loop is at a length token that decodes to more bytes than are
\* left in the key line from the key cursor
OverlongToken ==
    /\ pc = "token" /\ idxCompressed < Len(compressed)
    /\ At(compressed, idxCompressed) > ESCAPE_BYTE
    /\ decodeLength(Slice(compressed, idxCompressed, Len(compressed))).sameStringLength
           > Len(keyLine) - idxKeyLine

\* C27: over-long back-reference.  Whenever a length token decodes to a
\* value greater than the number of bytes left in the key line from the key
\* cursor (the cursor may lie past the end of the key line after a decoded
\* initial offset, and the key line is empty when the referenced line was
\* never pushed), decompressChunk returns the corruption result and has
\* copied no byte of that token.
OverlongIsCorrupt ==
    [][OverlongToken =>
          /\ pc' = "chunkret" /\ chunkRet' = -1
          /\ dst' = dst /\ chunkWritten' = chunkWritten]_vars

\* a chunk was refused at a length token when the key cursor, set by an
\* initial offset, lay past the end of a key line that is not empty
CursorPastKeyLine ==
    /\ pc = "chunkret" /\ chunkRet = -1
    /\ Len(keyLine) > 0 /\ idxKeyLine > Len(keyLine)
    /\ idxCompressed > 0 /\ At(compressed, idxCompressed - 1) > ESCAPE_BYTE

\* the token loop is at a token whose bytes do not fit the rawSize declared:
\* a length token that the key line can serve, or a literal
Overshoots ==
    /\ pc = "token" /\ idxCompressed < Len(compressed)
    /\ IF At(compressed, idxCompressed) > ESCAPE_BYTE
       THEN /\ ~OverlongToken
            /\ chunkWritten
                   + decodeLength(Slice(compressed, idxCompressed,
                                        Len(compressed))).sameStringLength
                   > rawSize
       ELSE /\ chunkWritten >= rawSize
            /\ At(compressed, idxCompressed) = ESCAPE_BYTE =>
                   idxCompressed + 1 < Len(compressed)

\* C28: declared rawSize overshoot.  Whenever decoding a chunk would produce
\* more bytes than the rawSize of its header, by a literal or by the copy of
\* a length token out of the key line, decompressChunk reports corruption
\* and neither writes nor indexes past dst[:rawSize]; Decompress returns
\* (CORRUPT_INPUT, 0) when the chunk is the first of the call.
OvershootIsCorrupt ==
    [][Overshoots =>
          /\ pc' = "chunkret" /\ chunkRet' = -1
          /\ fault' = "none"
          /\ dst' = dst]_vars

\* C29: chunks are self-contained.  decompressChunk starts every chunk from
\* a fresh, empty ring, the key line of every line of a chunk is a line of
\* that chunk's own output, and for the archives A and B of two inputs, with
\* enough dst, Decompress of A followed by B reads both and writes exactly
\* what Decompress of A writes followed by what Decompress of B writes.
ChunksSelfContained ==
    /\ (pc = "line" /\ Len(compressed) = chunkSize) =>
           backref = NewBackref(MAX_BACKREFERENCE_CAPACITY)
    /\ (pc = "token" /\ keyLine # << >>) =>
           \E lo \in 0..chunkWritten, hi \in 0..chunkWritten :
               keyLine = ChunkDst(dst, lo, hi)
    /\ (Returned /\ probe.kind = "joined") =>
           /\ probe.resultFirst = << Len(probe.packedFirst), Len(probe.first) >>
           /\ probe.resultSecond = << Len(probe.packedSecond), Len(probe.second) >>
           /\ result = << probe.resultFirst[1] + probe.resultSecond[1],
                          probe.resultFirst[2] + probe.resultSecond[2] >>
           /\ dst = probe.dstFirst \o probe.dstSecond

\* A followed by B was unpacked by one call, B holds a line that refers to
\* the line before it, and A holds two lines or more
JoinedWithReferences ==
    /\ Returned /\ probe.kind = "joined"
    /\ \E i \in 1..Len(probe.packedSecond) :
          i > HEADER_SIZE + 1 /\ probe.packedSecond[i] = ESCAPE_BYTE + 1
    /\ Cardinality({ i \in 1..Len(probe.first) : probe.first[i] = LF }) >= 2
    /\ Len(probe.packedFirst) > HEADER_SIZE + readHeader(probe.packedFirst).compressedSize

\* C30: output contiguity.  Whenever Decompress returns a non-negative
\* bytesRead, bytesWritten is the sum of the rawSizes declared by the chunks
\* it accepted (the offset dst was advanced to), so dst[0 .. bytesWritten)
\* has no gap: a chunk that decodes to fewer bytes than it declares is not
\* accepted.
ContiguousOutput ==
    (Returned /\ result[1] >= 0) => result[2] = dstOff

=============================================================================
